---- MODULE Spec2Model ----
(***************************************************************************)
(* TTB COLA Data Explorer (cola_streamlit_app.py): the filter-to-SQL       *)
(* compiler of main(), the primary query it sends, the two auxiliary batch *)
(* queries and the merge of their results onto the records.                *)
(*                                                                         *)
(* Text values are sequences of one-character strings.  SQL NULL / Python  *)
(* None is a sentinel of the same shape as the value it replaces.  Dates   *)
(* are integers yyyymmdd, which order exactly as ISO 'YYYY-MM-DD' strings. *)
(* SQL conditions evaluate in three-valued logic: "T", "F" or "N" (NULL).  *)
(***************************************************************************)
EXTENDS Integers, Sequences, FiniteSets, TLC

\* ------------------------------------------------------------------------
\* Bounds of the model
\* ------------------------------------------------------------------------

\* Largest number of values a user selects in one multi-select widget.
MaxSel == 2

\* ------------------------------------------------------------------------
\* Values
\* ------------------------------------------------------------------------

\* NULL of a text column / None of a Python string.
NullText == <<"<NULL>">>
\* NULL of a date column / None of a Python date.
NullDate == 0

\* Length of a COLA identifier: len(part) == 14.
IdLen == 14

Digits == {"0", "1", "2", "3", "4", "5", "6", "7", "8", "9"}

\* The sentinel COALESCE(.., 'UNKNOWN') substitutes for NULL.
UNKNOWN == <<"U", "N", "K", "N", "O", "W", "N">>

Rep(c, n) == [i \in 1..n |-> c]

\* ------------------------------------------------------------------------
\* String functions of Python and SQL
\* ------------------------------------------------------------------------

\* str.lower() / SQL LOWER() on one character.
LowerChar(c) ==
    CASE c = "A" -> "a" [] c = "B" -> "b" [] c = "C" -> "c" [] c = "D" -> "d"
      [] c = "E" -> "e" [] c = "F" -> "f" [] c = "G" -> "g" [] c = "H" -> "h"
      [] c = "I" -> "i" [] c = "J" -> "j" [] c = "K" -> "k" [] c = "L" -> "l"
      [] c = "M" -> "m" [] c = "N" -> "n" [] c = "O" -> "o" [] c = "P" -> "p"
      [] c = "Q" -> "q" [] c = "R" -> "r" [] c = "S" -> "s" [] c = "T" -> "t"
      [] c = "U" -> "u" [] c = "V" -> "v" [] c = "W" -> "w" [] c = "X" -> "x"
      [] c = "Y" -> "y" [] c = "Z" -> "z"
      [] OTHER -> c

\* str.lower() / SQL LOWER(): NULL stays NULL.
Lower(s) == IF s = NullText THEN NullText ELSE [i \in 1..Len(s) |-> LowerChar(s[i])]

\* SQL COALESCE(x, d).
Coalesce(x, d) == IF x = NullText THEN d ELSE x

\* str.split(','): the parts between commas, empty parts kept.
RECURSIVE SplitComma(_)
SplitComma(s) ==
    IF \A i \in 1..Len(s) : s[i] # ","
    THEN <<s>>
    ELSE LET k == CHOOSE i \in 1..Len(s) :
                      s[i] = "," /\ \A j \in 1..(i - 1) : s[j] # ","
         IN  <<SubSeq(s, 1, k - 1)>> \o SplitComma(SubSeq(s, k + 1, Len(s)))

\* str.strip(): leading and trailing whitespace removed.
RECURSIVE LStrip(_)
LStrip(s) == IF s # <<>> /\ Head(s) = " " THEN LStrip(Tail(s)) ELSE s

RECURSIVE RStrip(_)
RStrip(s) ==
    IF s # <<>> /\ s[Len(s)] = " " THEN RStrip(SubSeq(s, 1, Len(s) - 1)) ELSE s

Strip(s) == RStrip(LStrip(s))

\* str.isdigit(): non-empty and every character a digit.
IsDigit(s) == s # <<>> /\ \A i \in 1..Len(s) : s[i] \in Digits

\* SQL  s LIKE p  on non-NULL text: '%' matches any run of characters, '_'
\* matches any one character, every other character matches itself; there
\* is no escape character.
RECURSIVE LikeText(_, _)
LikeText(s, p) ==
    IF p = <<>> THEN s = <<>>
    ELSE IF Head(p) = "%"
         THEN LikeText(s, Tail(p)) \/ (s # <<>> /\ LikeText(Tail(s), p))
         ELSE /\ s # <<>>
              /\ (Head(p) = "_" \/ Head(p) = Head(s))
              /\ LikeText(Tail(s), Tail(p))

\* SQL  s LIKE p  in three-valued logic.
Like(s, p) ==
    IF s = NullText \/ p = NullText THEN "N"
    ELSE IF LikeText(s, p) THEN "T" ELSE "F"

\* Three-valued connectives of SQL.
Not3(a) == CASE a = "T" -> "F" [] a = "F" -> "T" [] OTHER -> "N"

Or3(a, b) ==
    IF a = "T" \/ b = "T" THEN "T"
    ELSE IF a = "F" /\ b = "F" THEN "F" ELSE "N"

And3(a, b) ==
    IF a = "F" \/ b = "F" THEN "F"
    ELSE IF a = "T" /\ b = "T" THEN "T" ELSE "N"

RECURSIVE OrAll(_)
OrAll(vs) == IF vs = <<>> THEN "F" ELSE Or3(Head(vs), OrAll(Tail(vs)))

RECURSIVE AndAll(_)
AndAll(vs) == IF vs = <<>> THEN "T" ELSE And3(Head(vs), AndAll(Tail(vs)))

\* A variant of is_cola_id_list that skips a part that is not 14 digits
\* instead of rejecting the list.
is_cola_id_list_SkipsBadParts(search_term) ==
    IF search_term = <<>>
    THEN [ok |-> FALSE, ids |-> <<>>]
    ELSE LET split == SplitComma(search_term)
             parts == [i \in 1..Len(split) |-> Strip(split[i])]
             good == SelectSeq(parts, LAMBDA t : Len(t) = IdLen /\ IsDigit(t))
         IN  IF good # <<>>
             THEN [ok |-> TRUE, ids |-> good]
             ELSE [ok |-> FALSE, ids |-> <<>>]

\* A variant of is_cola_id_list that drops the empty parts, as parse_url_list
\* does, before testing the others.
is_cola_id_list_DropsEmptyParts(search_term) ==
    IF search_term = <<>>
    THEN [ok |-> FALSE, ids |-> <<>>]
    ELSE LET split == SplitComma(search_term)
             stripped == [i \in 1..Len(split) |-> Strip(split[i])]
             parts == SelectSeq(stripped, LAMBDA t : t # <<>>)
         IN  IF parts # <<>> /\ \A i \in 1..Len(parts) : Len(parts[i]) = IdLen /\ IsDigit(parts[i])
             THEN [ok |-> TRUE, ids |-> parts]
             ELSE [ok |-> FALSE, ids |-> <<>>]

\* is_cola_id_list(search_term): (is_cola_list, cola_ids).
is_cola_id_list(search_term) ==
    IF search_term = <<>>
    THEN [ok |-> FALSE, ids |-> <<>>]
    ELSE LET split == SplitComma(search_term)
             parts == [i \in 1..Len(split) |-> Strip(split[i])]
         IN  IF \A i \in 1..Len(parts) : Len(parts[i]) = IdLen /\ IsDigit(parts[i])
             THEN [ok |-> TRUE, ids |-> parts]
             ELSE [ok |-> FALSE, ids |-> <<>>]

\* ------------------------------------------------------------------------
\* Dates
\* ------------------------------------------------------------------------

Year(d) == d \div 10000
Month(d) == (d \div 100) % 100
Day(d) == d % 100

IsLeap(y) == (y % 4 = 0 /\ y % 100 # 0) \/ y % 400 = 0

DaysIn(y, m) ==
    IF m = 2 THEN (IF IsLeap(y) THEN 29 ELSE 28)
    ELSE IF m \in {4, 6, 9, 11} THEN 30 ELSE 31

DigitChar(n) ==
    CASE n = 0 -> "0" [] n = 1 -> "1" [] n = 2 -> "2" [] n = 3 -> "3"
      [] n = 4 -> "4" [] n = 5 -> "5" [] n = 6 -> "6" [] n = 7 -> "7"
      [] n = 8 -> "8" [] n = 9 -> "9"

DigitValue(c) == CHOOSE n \in 0..9 : DigitChar(n) = c

\* str(date): 'YYYY-MM-DD'; str(None) is never bound as a parameter.
FormatDate(d) ==
    << DigitChar(Year(d) \div 1000), DigitChar((Year(d) \div 100) % 10),
       DigitChar((Year(d) \div 10) % 10), DigitChar(Year(d) % 10), "-",
       DigitChar(Month(d) \div 10), DigitChar(Month(d) % 10), "-",
       DigitChar(Day(d) \div 10), DigitChar(Day(d) % 10) >>

\* The cast of a 'YYYY-MM-DD' parameter to a date by the database.
ParseDate(t) ==
    (DigitValue(t[1]) * 1000 + DigitValue(t[2]) * 100 + DigitValue(t[3]) * 10
        + DigitValue(t[4])) * 10000
      + (DigitValue(t[6]) * 10 + DigitValue(t[7])) * 100
      + DigitValue(t[9]) * 10 + DigitValue(t[10])

\* date - timedelta(days=1)
PrevDay(d) ==
    IF Day(d) > 1 THEN d - 1
    ELSE IF Month(d) > 1
         THEN Year(d) * 10000 + (Month(d) - 1) * 100 + DaysIn(Year(d), Month(d) - 1)
         ELSE (Year(d) - 1) * 10000 + 1231

\* date - timedelta(days=n)
RECURSIVE MinusDays(_, _)
MinusDays(d, n) == IF n = 0 THEN d ELSE MinusDays(PrevDay(d), n - 1)

\* Width of the default date window: timedelta(days=14).
DefaultWindowDays == 14

\* ------------------------------------------------------------------------
\* The analytical store (read-only)
\* ------------------------------------------------------------------------

FRANCE == <<"F", "R", "A", "N", "C", "E">>
TABLE_WINE == <<"T", "A", "B", "L", "E", " ", "W", "I", "N", "E">>
wine == <<"w", "i", "n", "e">>
LABEL == <<"L", "A", "B", "E", "L">>

IdA == Rep("1", IdLen)
IdB == Rep("2", IdLen)
IdC == Rep("3", IdLen)

\* A store with completion dates: three COLAs and their related rows.
StoreMain ==
    [ colas |-> <<
        [ cola_id |-> IdA, brand_name |-> <<"a", "b", "c">>,
          fanciful_name |-> NullText, permit_num |-> <<"p", "4">>,
          serial_num |-> <<"s", "5">>, origin |-> FRANCE,
          class_type |-> TABLE_WINE, ct_commodity |-> wine,
          completed_date |-> 20240101 ],
        [ cola_id |-> IdB, brand_name |-> <<"A", "B", "X">>,
          fanciful_name |-> <<"x">>, permit_num |-> <<"b", "c">>,
          serial_num |-> NullText, origin |-> FRANCE,
          class_type |-> TABLE_WINE, ct_commodity |-> wine,
          completed_date |-> NullDate ],
        [ cola_id |-> IdC, brand_name |-> NullText,
          fanciful_name |-> <<"a", "_", "c">>, permit_num |-> NullText,
          serial_num |-> <<"s", "6">>, origin |-> NullText,
          class_type |-> TABLE_WINE, ct_commodity |-> NullText,
          completed_date |-> 20240131 ] >>,
      image_analysis_items |-> {
        [ cola_id |-> IdC, text |-> <<"x", "A", "B">> ],
        [ cola_id |-> IdA, text |-> NullText ] },
      cola_analysis |-> {
        [ cola_id |-> IdB, response |-> NullText, metadata |-> <<"a", "b", "c">> ],
        [ cola_id |-> IdC, response |-> <<"x">>, metadata |-> NullText ] },
      vw_cola_images |-> <<
        [ cola_id |-> IdA, public_url |-> <<"u", "1">>, file_name |-> <<"f", "1">> ],
        [ cola_id |-> IdA, public_url |-> NullText, file_name |-> <<"f", "2">> ],
        [ cola_id |-> IdB, public_url |-> NullText, file_name |-> <<"f", "3">> ],
        [ cola_id |-> IdB, public_url |-> <<"u", "3">>, file_name |-> <<"f", "4">> ] >>,
      vw_cola_violations_list |-> <<
        [ cola_id |-> IdA, violation_group |-> LABEL ],
        [ cola_id |-> IdA, violation_group |-> LABEL ] >> ]

\* A store in which no COLA has a completion date.
StoreNoDates ==
    [ colas |-> <<
        [ cola_id |-> IdA, brand_name |-> <<"a", "b", "c">>,
          fanciful_name |-> NullText, permit_num |-> NullText,
          serial_num |-> NullText, origin |-> NullText,
          class_type |-> TABLE_WINE, ct_commodity |-> wine,
          completed_date |-> NullDate ],
        [ cola_id |-> IdB, brand_name |-> NullText,
          fanciful_name |-> NullText, permit_num |-> NullText,
          serial_num |-> NullText, origin |-> NullText,
          class_type |-> NullText, ct_commodity |-> wine,
          completed_date |-> NullDate ] >>,
      image_analysis_items |-> {},
      cola_analysis |-> {},
      vw_cola_images |-> <<
        [ cola_id |-> IdB, public_url |-> <<"u", "2">>, file_name |-> <<"f", "1">> ] >>,
      vw_cola_violations_list |-> <<
        [ cola_id |-> IdB, violation_group |-> LABEL ] >> ]

Stores == {StoreMain, StoreNoDates}

\* ------------------------------------------------------------------------
\* What a user can type into the two text inputs
\* ------------------------------------------------------------------------

Short13 == Rep("1", IdLen - 1)

SearchTexts ==
    { <<>>,
      <<"a", "B">>,
      <<"a", "_", "c">>,
      Short13,
      IdA,
      IdA \o <<",">> \o IdB,
      IdB \o <<",", " ">> \o IdA,
      IdA \o <<",", "a", "b">>,
      IdA \o <<",">> }

ExcludeTexts == { <<>>, <<"b", "c">> }

\* ------------------------------------------------------------------------
\* State of one script run
\* ------------------------------------------------------------------------

VARIABLES
    store,                      \* the analytical store the connection reads
    token, database,            \* MOTHERDUCK_TOKEN and the state of the service
    corrupt,                    \* identifiers whose aggregated JSON is malformed
    landing,                    \* the address the page is opened with
    call,                       \* a function of the module called on its own
    url,                        \* st.query_params: the address bar of the page
    interactions,               \* widget changes of the user since the page load
    pressed,                    \* the run follows 'Show All Available Dates'
    pc,                         \* position of the script run
    log,                        \* what the run has done so far, in order
    search_term, exclude_term,  \* text inputs
    selected_start, selected_end,
    selected_origin, selected_class_type, selected_commodity,
    selected_brand, selected_violation_group,
    is_cola_list, cola_ids,
    where_clauses, params, where_sql,
    df,                         \* rows of the primary query
    images_data, violations_data,
    filtered,                   \* the merged, shuffled records
    results_message, commodity_summary, chart, rendered,
    last                        \* what the previous run of the script produced

filters ==
    <<search_term, exclude_term, selected_start, selected_end, selected_origin,
      selected_class_type, selected_commodity, selected_brand,
      selected_violation_group>>

compiled == <<is_cola_list, cola_ids, where_clauses, params, where_sql>>

fetched == <<df, images_data, violations_data, filtered>>

environment == <<store, token, database, corrupt, landing, call>>

shown == <<results_message, commodity_summary, chart, rendered>>

vars ==
    <<environment, url, interactions, pressed, pc, log, filters, compiled, fetched, shown,
      last>>

\* Elements of a sequence.
Range(s) == {s[i] : i \in 1..Len(s)}

\* Lists without repetition of at most n values of S: what a multi-select
\* returns, in the order the user picked the values.
ListsOf(S, n) ==
    UNION { { s \in [1..k -> S] : \A i, j \in 1..k : i # j => s[i] # s[j] } : k \in 0..n }

\* SELECT MIN(completed_date) ... WHERE completed_date IS NOT NULL
NonNullDates(st) ==
    { r.completed_date : r \in { x \in Range(st.colas) : x.completed_date # NullDate } }

min_date(st) ==
    IF NonNullDates(st) = {} THEN NullDate
    ELSE CHOOSE d \in NonNullDates(st) : \A e \in NonNullDates(st) : d <= e

max_date(st) ==
    IF NonNullDates(st) = {} THEN NullDate
    ELSE CHOOSE d \in NonNullDates(st) : \A e \in NonNullDates(st) : d >= e

\* max(min_date, max_date - 14 days)
default_start(st) ==
    LET d == MinusDays(max_date(st), DefaultWindowDays)
    IN  IF d < min_date(st) THEN min_date(st) ELSE d

\* SELECT DISTINCT COALESCE(origin, 'UNKNOWN')
origin_options(st) == { Coalesce(r.origin, UNKNOWN) : r \in Range(st.colas) }

\* SELECT DISTINCT COALESCE(class_type, 'UNKNOWN')
class_type_options(st) == { Coalesce(r.class_type, UNKNOWN) : r \in Range(st.colas) }

\* SELECT DISTINCT COALESCE(brand_name, 'UNKNOWN') WHERE brand_name IS NOT NULL
\* AND TRIM(brand_name) != ''
brand_options(st) ==
    { r.brand_name :
        r \in { x \in Range(st.colas) :
                  x.brand_name # NullText /\ Strip(x.brand_name) # <<>> } }

\* SELECT DISTINCT violation_group ... WHERE violation_group IS NOT NULL
violation_group_options(st) ==
    { v.violation_group :
        v \in { x \in Range(st.vw_cola_violations_list) : x.violation_group # NullText } }

\* SELECT DISTINCT ct_commodity ... WHERE ct_commodity IS NOT NULL
commodity_options(st) ==
    { r.ct_commodity :
        r \in { x \in Range(st.colas) : x.ct_commodity # NullText } }

\* What st.sidebar.date_input returns: a complete range inside
\* [min_value, max_value], or a one-element tuple while the user has picked
\* only the start of a range.
DateInputs(st) ==
    { <<s, e>> : s \in {min_date(st)}, e \in {min_date(st), max_date(st)} }
      \cup { <<max_date(st), max_date(st)>>, <<max_date(st)>> }

NoRows == <<>>
NoMap == [k \in {} |-> <<>>]
NoWhere == [present |-> FALSE, conj |-> <<>>]
NoLast == [valid |-> FALSE, filters |-> <<>>, where |-> NoWhere, params |-> <<>>,
           shown |-> <<>>]

\* ------------------------------------------------------------------------
\* The connection
\* ------------------------------------------------------------------------

GoodToken == <<"t", "o", "k">>
BadToken == <<"b", "a", "d">>

\* os.getenv('MOTHERDUCK_TOKEN'): unset, empty, accepted or rejected.
Tokens == {NullText, <<>>, GoodToken, BadToken}

\* What the service does with a connection: it answers, it refuses an alias,
\* it does not know the database, it cannot be reached, or it accepts the
\* connection and then fails the probe query.
Databases == {"up", "alias", "not_found", "unreachable", "probe_fails"}

\* A variant of the token test that lets an empty token through.
TokenMissing_OnlyWhenUnset(t) == t = NullText

\* not MOTHERDUCK_TOKEN
TokenMissing(t) == t = NullText \/ t = <<>>

\* duckdb.connect(...) returns a connection.
ConnectReturns(t, db) == t = GoodToken /\ db \in {"up", "probe_fails"}

\* con.execute("SELECT 1").fetchone() returns.
ProbeReturns(t, db) == ConnectReturns(t, db) /\ db = "up"

\* The branch of the except block the text of the exception selects.
SpecificGuidance(t, db) ==
    IF db = "unreachable" \/ db = "probe_fails" THEN <<>>
    ELSE IF db = "alias" /\ t = GoodToken
         THEN <<"st.error: alias", "st.info: solutions">>
         ELSE IF t # GoodToken THEN <<"st.error: authentication">>
              ELSE <<"st.error: database not found">>

\* A variant of the connection that tries a second time after a failure.
ConnectionLog_Retry(t, db) ==
    IF TokenMissing(t)
    THEN <<"st.error: token not found", "st.info: token console", "st.stop">>
    ELSE IF ProbeReturns(t, db) THEN <<"duckdb.connect", "SELECT 1">>
         ELSE <<"duckdb.connect">>
                \o (IF ConnectReturns(t, db) THEN <<"SELECT 1">> ELSE <<>>)
                \o <<"duckdb.connect">>
                \o (IF ConnectReturns(t, db) THEN <<"SELECT 1">> ELSE <<>>)
                \o <<"st.error: failed to connect", "st.info: database">>
                \o SpecificGuidance(t, db)
                \o <<"st.info: troubleshooting", "st.stop">>

\* get_motherduck_connection(): what it does, in order.
ConnectionLog(t, db) ==
    IF TokenMissing(t)
    THEN <<"st.error: token not found", "st.info: token console", "st.stop">>
    ELSE IF ProbeReturns(t, db) THEN <<"duckdb.connect", "SELECT 1">>
         ELSE <<"duckdb.connect">>
                \o (IF ConnectReturns(t, db) THEN <<"SELECT 1">> ELSE <<>>)
                \o <<"st.error: failed to connect", "st.info: database">>
                \o SpecificGuidance(t, db)
                \o <<"st.info: troubleshooting", "st.stop">>

\* get_motherduck_connection() hands a connection to main().
Connected(t, db) ==
    LET l == ConnectionLog(t, db) IN l[Len(l)] # "st.stop"

\* ------------------------------------------------------------------------
\* The address of the page
\* ------------------------------------------------------------------------

UrlKeys ==
    {"search", "exclude", "start_date", "end_date", "commodity", "origin",
     "class_type", "brand", "violation_group"}

NoUrl == [k \in {} |-> <<>>]

\* ','.join(list)
RECURSIVE JoinComma(_)
JoinComma(l) ==
    IF l = <<>> THEN <<>>
    ELSE IF Len(l) = 1 THEN l[1]
         ELSE l[1] \o <<",">> \o JoinComma(Tail(l))

\* new_query_params: a key for every filter that has a value.
new_query_params(s, x, ds, de, com, org, cls, br, vg) ==
    LET active ==
            (IF s # <<>> THEN {"search"} ELSE {})
              \cup (IF x # <<>> THEN {"exclude"} ELSE {})
              \cup (IF ds # NullDate /\ de # NullDate
                    THEN {"start_date", "end_date"} ELSE {})
              \cup (IF com # <<>> THEN {"commodity"} ELSE {})
              \cup (IF org # <<>> THEN {"origin"} ELSE {})
              \cup (IF cls # <<>> THEN {"class_type"} ELSE {})
              \cup (IF br # <<>> THEN {"brand"} ELSE {})
              \cup (IF vg # <<>> THEN {"violation_group"} ELSE {})
    IN  [k \in active |->
            CASE k = "search" -> s
              [] k = "exclude" -> x
              [] k = "start_date" -> FormatDate(ds)
              [] k = "end_date" -> FormatDate(de)
              [] k = "commodity" -> JoinComma(com)
              [] k = "origin" -> JoinComma(org)
              [] k = "class_type" -> JoinComma(cls)
              [] k = "brand" -> JoinComma(br)
              [] k = "violation_group" -> JoinComma(vg)]

\* st.query_params.update(n): the keys of n are set, every other key stays.
UrlUpdate(u, n) ==
    [k \in (DOMAIN u) \cup (DOMAIN n) |-> IF k \in DOMAIN n THEN n[k] ELSE u[k]]

\* query_params.get(key, '')
UrlGet(u, key) == IF key \in DOMAIN u THEN u[key] ELSE <<>>

\* ------------------------------------------------------------------------
\* The start of a script run
\* ------------------------------------------------------------------------

NoMessage == [valid |-> FALSE, count |-> 0, limited |-> FALSE, explanations |-> <<>>]

\* No run of the script has started: the browser shows the landing address
\* and the process holds nothing.
Fresh ==
    /\ url = landing
    /\ interactions = 0
    /\ pressed = FALSE
    /\ pc = "idle"
    /\ log = <<>>
    /\ search_term = <<>>
    /\ exclude_term = <<>>
    /\ selected_start = NullDate
    /\ selected_end = NullDate
    /\ selected_origin = <<>>
    /\ selected_class_type = <<>>
    /\ selected_commodity = <<>>
    /\ selected_brand = <<>>
    /\ selected_violation_group = <<>>
    /\ is_cola_list = FALSE
    /\ cola_ids = <<>>
    /\ where_clauses = <<>>
    /\ params = <<>>
    /\ where_sql = NoWhere
    /\ df = NoRows
    /\ images_data = NoMap
    /\ violations_data = NoMap
    /\ filtered = NoRows
    /\ results_message = NoMessage
    /\ commodity_summary = "none"
    /\ chart = "none"
    /\ rendered = NoRows
    /\ last = NoLast

NoCorruption == [images |-> {}, violations |-> {}]

\* No function is called on its own.
NoCall == [fn |-> "none", args |-> <<>>, returned |-> FALSE, result |-> <<>>]

Init ==
    /\ store \in Stores
    /\ token \in Tokens
    /\ database \in Databases
    /\ corrupt = NoCorruption
    /\ landing = NoUrl
    /\ call = NoCall
    /\ Fresh

\* The top of main(): the title, then get_motherduck_connection(), which
\* returns a connection or halts the run.
Connect ==
    /\ pc = "idle"
    /\ log' = <<"st.title">> \o ConnectionLog(token, database)
    /\ pc' = IF Connected(token, database) THEN "connected" ELSE "stopped"
    /\ UNCHANGED <<environment, url, interactions, pressed, filters, compiled, fetched,
                   shown, last>>

\* The statements the sidebar sends and the widgets it draws, in order.
SidebarLog(st) ==
    <<"text inputs", "SELECT MIN(completed_date)", "SELECT MAX(completed_date)">>
      \o (IF min_date(st) # NullDate /\ max_date(st) # NullDate
          THEN <<"date input">> ELSE <<>>)
      \o <<"SELECT DISTINCT origin", "SELECT DISTINCT class_type",
           "SELECT DISTINCT brand_name", "SELECT DISTINCT violation_group",
           "SELECT DISTINCT ct_commodity", "multiselects",
           "st.query_params.update">>

\* has_other_filters: a filter other than the date range is active.
has_other_filters(s, x, com, org, cls, br, vg) ==
    s # <<>> \/ x # <<>> \/ com # <<>> \/ org # <<>> \/ cls # <<>> \/ br # <<>> \/ vg # <<>>

\* The 'Show All Available Dates' button, drawn after the address is updated.
ButtonLog(s, x, com, org, cls, br, vg, st) ==
    IF has_other_filters(s, x, com, org, cls, br, vg)
         /\ min_date(st) # NullDate /\ max_date(st) # NullDate
    THEN <<"st.sidebar.button">> ELSE <<>>

\* The sidebar of a script run with the values its widgets return: the
\* address is updated from them and nothing is compiled or fetched yet.
Sidebar(s, x, ds, de, com, org, cls, br, vg) ==
    /\ search_term' = s
    /\ exclude_term' = x
    /\ selected_start' = ds
    /\ selected_end' = de
    /\ selected_commodity' = com
    /\ selected_origin' = org
    /\ selected_class_type' = cls
    /\ selected_brand' = br
    /\ selected_violation_group' = vg
    /\ url' = UrlUpdate(url, new_query_params(s, x, ds, de, com, org, cls, br, vg))
    /\ log' = log \o SidebarLog(store) \o ButtonLog(s, x, com, org, cls, br, vg, store)
    /\ is_cola_list' = FALSE
    /\ cola_ids' = <<>>
    /\ where_clauses' = <<>>
    /\ params' = <<>>
    /\ where_sql' = NoWhere
    /\ pc' = "widgets"
    /\ UNCHANGED <<environment, interactions, pressed, fetched, shown, last>>

\* if len(date_range) == 2 ... else the default range; no range at all when
\* the store holds no completion date.
DateRanges(st) ==
    IF min_date(st) # NullDate /\ max_date(st) # NullDate
    THEN { IF Len(date_range) = 2 THEN date_range
           ELSE <<default_start(st), max_date(st)>> :
             date_range \in DateInputs(st) }
    ELSE { <<NullDate, NullDate>> }

\* The sidebar of a script run: the values the widgets hand to the script.
Widgets ==
    /\ pc = "connected"
    /\ \E s \in SearchTexts, x \in ExcludeTexts, dr \in DateRanges(store),
          com \in ListsOf(commodity_options(store), MaxSel),
          org \in ListsOf(origin_options(store), MaxSel),
          cls \in ListsOf(class_type_options(store), MaxSel),
          br \in ListsOf(brand_options(store), MaxSel),
          vg \in ListsOf(violation_group_options(store), MaxSel) :
          Sidebar(s, x, dr[1], dr[2], com, org, cls, br, vg)

\* ------------------------------------------------------------------------
\* The filter-to-SQL compiler
\* ------------------------------------------------------------------------

\* A clause of the WHERE conjunction.  kind is the shape of its SQL text,
\* field the column it tests, coalesce whether the column is wrapped in
\* COALESCE(.., 'UNKNOWN'), n the number of '?' of an IN list and conds the
\* alternatives of an OR.
Clause(kind, field, coalesce, n, conds) ==
    [kind |-> kind, field |-> field, coalesce |-> coalesce, n |-> n, conds |-> conds]

\* One alternative of the search OR: the expression tested and its number
\* of '?' placeholders.
Cond(expr, holes) == [expr |-> expr, holes |-> holes]

Part(cs, ps) == [clauses |-> cs, params |-> ps]
NoPart == Part(<<>>, <<>>)

\* A variant of the fast path that still applies the date range.
FastPath_KeepsDate(ids) ==
    IF selected_start # NullDate /\ selected_end # NullDate
    THEN Part(<<Clause("IN", "cola_id", FALSE, Len(ids), <<>>),
                Clause("BETWEEN", "completed_date", FALSE, 0, <<>>)>>,
              ids \o <<FormatDate(selected_start), FormatDate(selected_end)>>)
    ELSE Part(<<Clause("IN", "cola_id", FALSE, Len(ids), <<>>)>>, ids)

\* 'c.cola_id IN (' + ','.join(['?' for _ in cola_ids]) + ')'
FastPath(ids) ==
    Part(<<Clause("IN", "cola_id", FALSE, Len(ids), <<>>)>>, ids)

\* A variant of the origin clause that tests the bare column.
OriginPart_NoCoalesce ==
    IF selected_origin # <<>>
    THEN Part(<<Clause("IN", "origin", FALSE, Len(selected_origin), <<>>)>>,
              selected_origin)
    ELSE NoPart

OriginPart ==
    IF selected_origin # <<>>
    THEN Part(<<Clause("IN", "origin", TRUE, Len(selected_origin), <<>>)>>,
              selected_origin)
    ELSE NoPart

ClassTypePart ==
    IF selected_class_type # <<>>
    THEN Part(<<Clause("IN", "class_type", TRUE, Len(selected_class_type), <<>>)>>,
              selected_class_type)
    ELSE NoPart

CommodityPart ==
    IF selected_commodity # <<>>
    THEN Part(<<Clause("IN", "ct_commodity", FALSE, Len(selected_commodity), <<>>)>>,
              selected_commodity)
    ELSE NoPart

BrandPart ==
    IF selected_brand # <<>>
    THEN Part(<<Clause("IN", "brand_name", TRUE, Len(selected_brand), <<>>)>>,
              selected_brand)
    ELSE NoPart

\* EXISTS (SELECT 1 FROM vw_cola_violations_list v WHERE v.cola_id = c.cola_id
\*         AND v.violation_group IN (?,...))
ViolationGroupPart ==
    IF selected_violation_group # <<>>
    THEN Part(<<Clause("EXISTS_IN", "violation_group", FALSE,
                       Len(selected_violation_group), <<>>)>>,
              selected_violation_group)
    ELSE NoPart

\* A variant of the date clause that stops the day before the end date.
DatePart_EndExclusive ==
    IF selected_start # NullDate /\ selected_end # NullDate
    THEN Part(<<Clause("BETWEEN", "completed_date", FALSE, 0, <<>>)>>,
              <<FormatDate(selected_start), FormatDate(PrevDay(selected_end))>>)
    ELSE NoPart

\* 'completed_date BETWEEN ? AND ?'
DatePart ==
    IF selected_start # NullDate /\ selected_end # NullDate
    THEN Part(<<Clause("BETWEEN", "completed_date", FALSE, 0, <<>>)>>,
              <<FormatDate(selected_start), FormatDate(selected_end)>>)
    ELSE NoPart

\* The alternatives of the search clause, in the order of the code.
search_conditions ==
    << Cond("cola_id", 1), Cond("brand_name", 1), Cond("fanciful_name", 1),
       Cond("permit_num", 1), Cond("serial_num", 1),
       Cond("image_analysis_items", 1), Cond("cola_analysis", 2) >>

\* A variant of the exclude alternatives without the two EXISTS
\* sub-predicates.
exclude_conditions_BaseFieldsOnly ==
    << Cond("cola_id", 1), Cond("brand_name", 1), Cond("fanciful_name", 1),
       Cond("permit_num", 1), Cond("serial_num", 1) >>

\* The alternatives of the exclude clause, in the order of the code.
exclude_conditions ==
    << Cond("cola_id", 1), Cond("brand_name", 1), Cond("fanciful_name", 1),
       Cond("permit_num", 1), Cond("serial_num", 1),
       Cond("image_analysis_items", 1), Cond("cola_analysis", 2) >>

\* f"%{text.lower()}%"
Pattern(text) == <<"%">> \o Lower(text) \o <<"%">>

\* Number of copies of the pattern bound to a search or exclude clause.
PatternCopies == 8

\* A variant of the search clause that is built whenever either text
\* input is filled.
SearchPart_OnEitherTerm ==
    IF search_term # <<>> \/ exclude_term # <<>>
    THEN Part(<<Clause("OR", "", FALSE, 0, search_conditions)>>,
              Rep(Pattern(search_term), PatternCopies))
    ELSE NoPart

SearchPart ==
    IF search_term # <<>>
    THEN Part(<<Clause("OR", "", FALSE, 0, search_conditions)>>,
              Rep(Pattern(search_term), PatternCopies))
    ELSE NoPart

\* A variant of the exclude clause that binds its pattern once.
ExcludePart_OneCopy ==
    IF exclude_term # <<>>
    THEN Part(<<Clause("NOT_OR", "", FALSE, 0, exclude_conditions)>>,
              <<Pattern(exclude_term)>>)
    ELSE NoPart

ExcludePart ==
    IF exclude_term # <<>>
    THEN Part(<<Clause("NOT_OR", "", FALSE, 0, exclude_conditions)>>,
              Rep(Pattern(exclude_term), PatternCopies))
    ELSE NoPart

\* A variant of the normal path that tests the date range first.
NormalPath_DateFirst ==
    LET parts == << DatePart, OriginPart, ClassTypePart, CommodityPart, BrandPart,
                    ViolationGroupPart, SearchPart, ExcludePart >>
    IN  Part(parts[1].clauses \o parts[2].clauses \o parts[3].clauses
               \o parts[4].clauses \o parts[5].clauses \o parts[6].clauses
               \o parts[7].clauses \o parts[8].clauses,
             parts[1].params \o parts[2].params \o parts[3].params
               \o parts[4].params \o parts[5].params \o parts[6].params
               \o parts[7].params \o parts[8].params)

\* A variant of the normal path whose clause and parameter lists are not
\* emptied between runs: it appends to what the previous run built.
NormalPath_KeepsEarlierClauses ==
    LET parts == << OriginPart, ClassTypePart, CommodityPart, BrandPart,
                    ViolationGroupPart, DatePart, SearchPart, ExcludePart >>
    IN  Part(last.where.conj
               \o parts[1].clauses \o parts[2].clauses \o parts[3].clauses
               \o parts[4].clauses \o parts[5].clauses \o parts[6].clauses
               \o parts[7].clauses \o parts[8].clauses,
             last.params
               \o parts[1].params \o parts[2].params \o parts[3].params
               \o parts[4].params \o parts[5].params \o parts[6].params
               \o parts[7].params \o parts[8].params)

\* The branch taken when the search text is not an ID list.
NormalPath ==
    LET parts == << OriginPart, ClassTypePart, CommodityPart, BrandPart,
                    ViolationGroupPart, DatePart, SearchPart, ExcludePart >>
    IN  Part(parts[1].clauses \o parts[2].clauses \o parts[3].clauses
               \o parts[4].clauses \o parts[5].clauses \o parts[6].clauses
               \o parts[7].clauses \o parts[8].clauses,
             parts[1].params \o parts[2].params \o parts[3].params
               \o parts[4].params \o parts[5].params \o parts[6].params
               \o parts[7].params \o parts[8].params)

\* ('WHERE ' + ' AND '.join(where_clauses)) if where_clauses else ''
WhereSql(cs) == IF cs # <<>> THEN [present |-> TRUE, conj |-> cs] ELSE NoWhere

\* is_cola_list, cola_ids = is_cola_id_list(search_term), only for a
\* non-empty search term.
IdListCheck ==
    IF search_term # <<>> THEN is_cola_id_list(search_term)
    ELSE [ok |-> FALSE, ids |-> <<>>]

\* Build the WHERE clause and the parameter list from the filter state.
Compile ==
    /\ pc = "widgets"
    /\ LET r == IdListCheck
           built == IF r.ok THEN FastPath(r.ids) ELSE NormalPath
       IN  /\ is_cola_list' = r.ok
           /\ cola_ids' = r.ids
           /\ where_clauses' = built.clauses
           /\ params' = built.params
           /\ where_sql' = WhereSql(built.clauses)
    /\ pc' = "compiled"
    /\ log' = log \o <<"compile">>
    /\ UNCHANGED <<environment, url, interactions, pressed, filters, fetched, shown, last>>

\* ------------------------------------------------------------------------
\* What the database answers
\* ------------------------------------------------------------------------

\* Number of '?' placeholders of an alternative list.
RECURSIVE CondHoles(_)
CondHoles(cs) == IF cs = <<>> THEN 0 ELSE Head(cs).holes + CondHoles(Tail(cs))

\* Number of '?' placeholders of a clause.
Holes(cl) ==
    CASE cl.kind \in {"IN", "EXISTS_IN"} -> cl.n
      [] cl.kind = "BETWEEN" -> 2
      [] cl.kind \in {"OR", "NOT_OR"} -> CondHoles(cl.conds)

\* Number of '?' placeholders of a conjunction.
RECURSIVE TotalHoles(_)
TotalHoles(cs) == IF cs = <<>> THEN 0 ELSE Holes(Head(cs)) + TotalHoles(Tail(cs))

\* x IN (p1, ..., pn) for non-NULL parameters.
InList(x, ps) ==
    IF x = NullText THEN "N" ELSE IF x \in Range(ps) THEN "T" ELSE "F"

\* One alternative of a search or exclude clause on record rec, with its
\* parameters ps bound.
EvalCond(c, ps, rec, st) ==
    CASE c.expr = "cola_id" ->
            \* LOWER(CAST(c.cola_id AS VARCHAR)) LIKE ?
            Like(Lower(rec.cola_id), ps[1])
      [] c.expr \in {"brand_name", "fanciful_name", "permit_num", "serial_num"} ->
            \* LOWER(COALESCE(c.<field>, '')) LIKE ?
            Like(Lower(Coalesce(rec[c.expr], <<>>)), ps[1])
      [] c.expr = "image_analysis_items" ->
            \* EXISTS (... WHERE iai.cola_id = c.cola_id
            \*             AND LOWER(COALESCE(iai.text, '')) LIKE ?)
            IF \E iai \in st.image_analysis_items :
                  /\ iai.cola_id = rec.cola_id
                  /\ Like(Lower(Coalesce(iai.text, <<>>)), ps[1]) = "T"
            THEN "T" ELSE "F"
      [] c.expr = "cola_analysis" ->
            \* EXISTS (... WHERE ca.cola_id = c.cola_id
            \*             AND (LOWER(CAST(ca.response AS VARCHAR)) LIKE ?
            \*                  OR LOWER(CAST(ca.metadata AS VARCHAR)) LIKE ?))
            IF \E ca \in st.cola_analysis :
                  /\ ca.cola_id = rec.cola_id
                  /\ Or3(Like(Lower(ca.response), ps[1]),
                         Like(Lower(ca.metadata), ps[2])) = "T"
            THEN "T" ELSE "F"

\* The alternatives cs, each with its own slice of the parameters ps.
RECURSIVE EvalConds(_, _, _, _)
EvalConds(cs, ps, rec, st) ==
    IF cs = <<>> THEN <<>>
    ELSE <<EvalCond(Head(cs), SubSeq(ps, 1, Head(cs).holes), rec, st)>>
           \o EvalConds(Tail(cs), SubSeq(ps, Head(cs).holes + 1, Len(ps)), rec, st)

\* One clause on record rec, with its parameters ps bound.
EvalClause(cl, ps, rec, st) ==
    CASE cl.kind = "IN" ->
            InList(IF cl.coalesce THEN Coalesce(rec[cl.field], UNKNOWN)
                   ELSE rec[cl.field], ps)
      [] cl.kind = "EXISTS_IN" ->
            IF \E v \in Range(st.vw_cola_violations_list) :
                  /\ v.cola_id = rec.cola_id
                  /\ InList(v.violation_group, ps) = "T"
            THEN "T" ELSE "F"
      [] cl.kind = "BETWEEN" ->
            IF rec[cl.field] = NullDate THEN "N"
            ELSE IF /\ ParseDate(ps[1]) <= rec[cl.field]
                    /\ rec[cl.field] <= ParseDate(ps[2])
                 THEN "T" ELSE "F"
      [] cl.kind = "OR" -> OrAll(EvalConds(cl.conds, ps, rec, st))
      [] cl.kind = "NOT_OR" -> Not3(OrAll(EvalConds(cl.conds, ps, rec, st)))

\* The clauses cs, each with its own slice of the positional parameters ps.
RECURSIVE EvalClauses(_, _, _, _)
EvalClauses(cs, ps, rec, st) ==
    IF cs = <<>> THEN <<>>
    ELSE <<EvalClause(Head(cs), SubSeq(ps, 1, Holes(Head(cs))), rec, st)>>
           \o EvalClauses(Tail(cs), SubSeq(ps, Holes(Head(cs)) + 1, Len(ps)), rec, st)

\* A row is selected when the WHERE conjunction is true (not false, not
\* NULL); without a WHERE clause every row is selected.
Selected(w, ps, rec, st) ==
    IF w.present THEN AndAll(EvalClauses(w.conj, ps, rec, st)) = "T" ELSE TRUE

\* The orders ORDER BY completed_date DESC allows for the rows S: later
\* dates first, NULL dates last, ties in any order.
OrderedDesc(S) ==
    { p \in [1..Cardinality(S) -> S] :
        /\ \A i, j \in 1..Cardinality(S) : i # j => p[i] # p[j]
        /\ \A i, j \in 1..Cardinality(S) :
              i < j => p[i].completed_date >= p[j].completed_date }

\* SELECT * from cola_images.vw_colas c <where_sql> ORDER BY completed_date DESC
PrimaryRows(w, ps, st) ==
    { rec \in Range(st.colas) : Selected(w, ps, rec, st) }

\* The images batch: one row per identifier of ids that has an image with
\* a public URL, holding the list of those images.
ImagesBatch(ids, st) ==
    LET withUrl(id) == SelectSeq(st.vw_cola_images,
                          LAMBDA im : im.cola_id = id /\ im.public_url # NullText)
        present == { id \in Range(ids) : withUrl(id) # <<>> }
    IN  [id \in present |-> withUrl(id)]

\* The violations batch: one row per identifier of ids that has a violation.
ViolationsBatch(ids, st) ==
    LET of(id) == SelectSeq(st.vw_cola_violations_list, LAMBDA v : v.cola_id = id)
        present == { id \in Range(ids) : of(id) # <<>> }
    IN  [id \in present |-> of(id)]

\* A variant of the row loop with one try around the whole loop: a row that
\* does not parse empties the whole result.
ParseRows_AllOrNothing(batch, bad) ==
    IF (DOMAIN batch) \cap bad # {} THEN [id \in DOMAIN batch |-> <<>>] ELSE batch

\* for _, row in ..._df.iterrows(): try json.loads(...) except: [] -- the
\* list of an identifier whose aggregate does not parse becomes empty.
ParseRows(batch, bad) ==
    [id \in DOMAIN batch |-> IF id \in bad THEN <<>> ELSE batch[id]]

\* A variant that fetches the related rows of each record with a statement
\* of its own.
AuxStatements_PerRecord(ids) ==
    [i \in 1..(2 * Len(ids)) |->
        IF i % 2 = 1 THEN "images batch" ELSE "violations batch"]

\* if cola_ids: the two batch statements, each sent once.
AuxStatements(ids) ==
    IF ids # <<>> THEN <<"images batch", "violations batch">> ELSE <<>>

\* Execute the primary query, then the two batch queries keyed by the
\* identifiers of its rows.
Query ==
    /\ pc = "compiled"
    /\ \E rows \in OrderedDesc(PrimaryRows(where_sql, params, store)) :
          LET ids == [i \in 1..Len(rows) |-> rows[i].cola_id]
          IN  /\ df' = rows
              /\ cola_ids' = ids
              /\ images_data' =
                    IF ids # <<>>
                    THEN ParseRows(ImagesBatch(ids, store), corrupt.images)
                    ELSE NoMap
              /\ violations_data' =
                    IF ids # <<>>
                    THEN ParseRows(ViolationsBatch(ids, store), corrupt.violations)
                    ELSE NoMap
              /\ log' = log \o <<"primary query", "cola_ids">> \o AuxStatements(ids)
    /\ pc' = "fetched"
    /\ UNCHANGED <<environment, url, interactions, pressed, filters, is_cola_list,
                   where_clauses, params, where_sql, filtered, shown, last>>

\* dict.get(key, []) on a batch result.
GetOrEmpty(m, key) == IF key \in DOMAIN m THEN m[key] ELSE <<>>

\* A variant of the merge that sets a list only for an identifier the
\* batch result holds.
Enrich_OnlyWhenPresent(rec, imgs, viols) ==
    LET withImages == IF rec.cola_id \in DOMAIN imgs
                      THEN rec @@ [images |-> imgs[rec.cola_id]] ELSE rec
    IN  IF rec.cola_id \in DOMAIN viols
        THEN withImages @@ [violations |-> viols[rec.cola_id]] ELSE withImages

\* rec['images'] = ...; rec['violations'] = ...
Enrich(rec, imgs, viols) ==
    rec @@ [images |-> GetOrEmpty(imgs, rec.cola_id),
            violations |-> GetOrEmpty(viols, rec.cola_id)]

\* random.shuffle: any order of the same records.
Shuffles(recs) ==
    { [i \in 1..Len(recs) |-> recs[p[i]]] :
        p \in { q \in [1..Len(recs) -> 1..Len(recs)] :
                  \A i, j \in 1..Len(recs) : i # j => q[i] # q[j] } }

\* Attach the batch results to the records and shuffle them.
Merge ==
    /\ pc = "fetched"
    /\ filtered' \in
          Shuffles([i \in 1..Len(df) |-> Enrich(df[i], images_data, violations_data)])
    /\ pc' = "merged"
    /\ log' = log \o <<"merge", "random.shuffle">>
    /\ UNCHANGED <<environment, url, interactions, pressed, filters, compiled, df,
                   images_data, violations_data, shown, last>>

\* ------------------------------------------------------------------------
\* The page below the sidebar
\* ------------------------------------------------------------------------

\* filtered[:100] and len(filtered) > 100
DisplayLimit == 100

\* s[:n]
Take(s, n) == SubSeq(s, 1, IF Len(s) < n THEN Len(s) ELSE n)

\* str.upper() on one character.
UpperChar(c) ==
    LET uppers == { u \in {"A", "B", "C", "D", "E", "F", "G", "H", "I", "J", "K", "L", "M",
                           "N", "O", "P", "Q", "R", "S", "T", "U", "V", "W", "X", "Y", "Z"} :
                      LowerChar(u) = c }
    IN  IF uppers = {} THEN c ELSE CHOOSE u \in uppers : TRUE

\* c.replace('_', ' ').title(): every letter that follows a non-letter is
\* upper-cased, every other letter lower-cased.
Title(t) ==
    LET spaced == [i \in 1..Len(t) |-> IF t[i] = "_" THEN " " ELSE t[i]]
        letter(c) == LowerChar(c) # UpperChar(c)
    IN  [i \in 1..Len(spaced) |->
            IF i = 1 \/ ~letter(spaced[i - 1])
            THEN UpperChar(spaced[i]) ELSE LowerChar(spaced[i])]

\* strftime('%B')
MonthName(m) ==
    << "January", "February", "March", "April", "May", "June", "July", "August",
       "September", "October", "November", "December" >>[m]

\* strftime('%B %d, %Y')
LongDate(d) == [month |-> MonthName(Month(d)), day |-> Day(d), year |-> Year(d)]

\* One phrase of filter_explanations: its wording, the number it states and
\* the values it names.
Explanation(phrase, n, values) == [phrase |-> phrase, n |-> n, values |-> values]

\* The phrase of a multi-valued filter, worded for one or for several values.
ListExplanation(one, several, values) ==
    IF values = <<>> THEN <<>>
    ELSE IF Len(values) = 1 THEN <<Explanation(one, 1, values)>>
         ELSE <<Explanation(several, Len(values), values)>>

\* filter_explanations: a phrase for every filter widget that holds a value,
\* in the order of the code; cola_ids are the identifiers of the rows of the
\* primary result by now.
filter_explanations ==
    (IF selected_start # NullDate /\ selected_end # NullDate
     THEN <<Explanation("with completion date from", 2,
                        <<LongDate(selected_start), LongDate(selected_end)>>)>>
     ELSE <<>>)
      \o ListExplanation("limited to COLAs only", "limited to COLAs",
                         [i \in 1..Len(selected_commodity) |-> Title(selected_commodity[i])])
      \o ListExplanation("for brand", "for brands", selected_brand)
      \o ListExplanation("of origin", "of origins", selected_origin)
      \o ListExplanation("with Class Type =", "with Class Type = []", selected_class_type)
      \o ListExplanation("with violations", "with violations", selected_violation_group)
      \o (IF search_term # <<>> /\ ~is_cola_list
          THEN <<Explanation("matching search term", 1, <<search_term>>)>>
          ELSE IF is_cola_list
               THEN IF Len(cola_ids) = 1
                    THEN <<Explanation("for COLA ID", 1, <<cola_ids[1]>>)>>
                    ELSE <<Explanation("for N specific COLA IDs", Len(cola_ids), <<>>)>>
               ELSE <<>>)
      \o (IF exclude_term # <<>>
          THEN <<Explanation("excluding", 1, <<exclude_term>>)>> ELSE <<>>)

\* A variant of the message that reports the number of displayed records.
ResultsMessage_CountsDisplayed(recs) ==
    [valid |-> TRUE, count |-> Len(Take(recs, DisplayLimit)),
     limited |-> Len(recs) > DisplayLimit, explanations |-> filter_explanations]

\* "Found {len(filtered):,} COLA records {explanations}" and the note
\* ", limiting to 100 results displayed".
ResultsMessage(recs) ==
    [valid |-> TRUE, count |-> Len(recs), limited |-> Len(recs) > DisplayLimit,
     explanations |-> filter_explanations]

\* The keys of commodity_counts.
CommodityKeys(recs) == { recs[i].ct_commodity : i \in 1..Len(recs) }

\* The commodity distribution summary: skipped for no record and for a
\* single commodity; sorted(commodity_counts.keys()) raises TypeError when
\* the keys are a missing value and a text.
SummaryOutcome(recs) ==
    IF recs = <<>> \/ Cardinality(CommodityKeys(recs)) <= 1 THEN "none"
    ELSE IF NullText \in CommodityKeys(recs) THEN "TypeError"
         ELSE "shown"

\* A variant of the chart block that is entered for an empty result too.
ChartOutcomes_Always(recs, ds, de) ==
    IF (\A i \in 1..Len(recs) : recs[i].completed_date = NullDate)
    THEN {"none", "blank"}
    ELSE IF ds = NullDate \/ de = NullDate THEN {"blank"}
         ELSE IF \E i \in 1..Len(recs) :
                    /\ recs[i].completed_date # NullDate
                    /\ recs[i].ct_commodity # NullText
              THEN {"drawn", "blank"}
              ELSE {"none", "blank"}

\* if filtered: try: ... st.altair_chart(...) except Exception: st.write("")
\* The chart is skipped for no record; otherwise it is drawn, or nothing is
\* drawn (no completion date, or no count to plot), or an exception raised
\* on the way leaves a blank.
ChartOutcomes(recs, ds, de) ==
    IF recs = <<>> THEN {"skipped"}
    ELSE IF (\A i \in 1..Len(recs) : recs[i].completed_date = NullDate)
         THEN {"none", "blank"}
         ELSE IF ds = NullDate \/ de = NullDate THEN {"blank"}
              ELSE IF \E i \in 1..Len(recs) :
                         /\ recs[i].completed_date # NullDate
                         /\ recs[i].ct_commodity # NullText
                   THEN {"drawn", "blank"}
                   ELSE {"none", "blank"}

ChartLog(c) ==
    CASE c = "skipped" -> <<>>
      [] c = "none" -> <<"chart: nothing to plot">>
      [] c = "drawn" -> <<"st.altair_chart">>
      [] c = "blank" -> <<"chart: exception", "st.write blank">>

\* ' | '.join(header_parts) raises TypeError for a record without a brand
\* name: highlight_term hands the missing value back.
HeaderFails(rec) == rec.brand_name = NullText

\* The records of recs before the first whose header fails.
RECURSIVE UntilFailure(_)
UntilFailure(recs) ==
    IF recs = <<>> \/ HeaderFails(Head(recs)) THEN <<>>
    ELSE <<Head(recs)>> \o UntilFailure(Tail(recs))

\* A variant of the page on which an exception of the chart ends the run.
Rendered_UnlessChartFailed(recs, c) ==
    IF c = "blank" THEN <<>> ELSE UntilFailure(Take(recs, DisplayLimit))

\* for c in filtered[:100]: the records the loop renders.
Rendered(recs, c) == UntilFailure(Take(recs, DisplayLimit))

\* The loop over filtered[:100] ends with an exception.
RenderFails(recs) == \E i \in 1..Len(Take(recs, DisplayLimit)) : HeaderFails(recs[i])

\* The results message, the commodity summary, the chart and the records.
Display ==
    /\ pc = "merged"
    /\ results_message' = ResultsMessage(filtered)
    /\ commodity_summary' = SummaryOutcome(filtered)
    /\ IF SummaryOutcome(filtered) = "TypeError"
       THEN /\ chart' = "none"
            /\ rendered' = NoRows
            /\ pc' = "crashed"
            /\ log' = log \o <<"st.write results_message", "TypeError">>
       ELSE \E c \in ChartOutcomes(filtered, selected_start, selected_end) :
               /\ chart' = c
               /\ rendered' = Rendered(filtered, c)
               /\ pc' = IF RenderFails(filtered) THEN "crashed" ELSE "done"
               /\ log' = log \o <<"st.write results_message">>
                           \o (IF SummaryOutcome(filtered) = "shown"
                               THEN <<"commodity summary">> ELSE <<>>)
                           \o ChartLog(c)
                           \o (IF filtered # <<>> THEN <<"st.divider">> ELSE <<>>)
                           \o <<"filtered[:100]">>
                           \o (IF rendered' # <<>> THEN <<"render records">> ELSE <<>>)
                           \o (IF RenderFails(filtered) THEN <<"TypeError">> ELSE <<>>)
    /\ UNCHANGED <<environment, url, interactions, pressed, filters, compiled, fetched,
                   last>>

\* The session ends and the page is opened again: nothing of the session is
\* kept.
EndRun ==
    /\ pc \in {"done", "crashed", "stopped"}
    /\ url' = landing
    /\ interactions' = 0
    /\ log' = <<>>
    /\ search_term' = <<>>
    /\ exclude_term' = <<>>
    /\ selected_start' = NullDate
    /\ selected_end' = NullDate
    /\ selected_origin' = <<>>
    /\ selected_class_type' = <<>>
    /\ selected_commodity' = <<>>
    /\ selected_brand' = <<>>
    /\ selected_violation_group' = <<>>
    /\ is_cola_list' = FALSE
    /\ cola_ids' = <<>>
    /\ where_clauses' = <<>>
    /\ params' = <<>>
    /\ where_sql' = NoWhere
    /\ df' = NoRows
    /\ images_data' = NoMap
    /\ violations_data' = NoMap
    /\ filtered' = NoRows
    /\ results_message' = NoMessage
    /\ commodity_summary' = "none"
    /\ chart' = "none"
    /\ rendered' = NoRows
    /\ last' = NoLast
    /\ pressed' = FALSE
    /\ pc' = "idle"
    /\ UNCHANGED environment

\* The framework runs the script again with every widget left as it is
\* (the user touched a widget without changing a filter value); the output
\* of the run that just ended is remembered for comparison.
Rerun ==
    /\ pc \in {"done", "crashed"}
    /\ ~last.valid
    /\ last' = [valid |-> TRUE, filters |-> filters, where |-> where_sql,
                params |-> params, shown |-> filtered]
    /\ is_cola_list' = FALSE
    /\ cola_ids' = <<>>
    /\ where_clauses' = <<>>
    /\ params' = <<>>
    /\ where_sql' = NoWhere
    /\ df' = NoRows
    /\ images_data' = NoMap
    /\ violations_data' = NoMap
    /\ filtered' = NoRows
    /\ results_message' = NoMessage
    /\ commodity_summary' = "none"
    /\ chart' = "none"
    /\ rendered' = NoRows
    /\ log' = <<"st.title">> \o ConnectionLog(token, database) \o SidebarLog(store)
                \o ButtonLog(search_term, exclude_term, selected_commodity, selected_origin,
                             selected_class_type, selected_brand,
                             selected_violation_group, store)
    /\ pc' = "widgets"
    /\ UNCHANGED <<environment, url, interactions, pressed, filters>>

Next == Connect \/ Widgets \/ Compile \/ Query \/ Merge \/ Display \/ EndRun

\* Runs of the script, each with freshly chosen filter values.

Spec == Init /\ [][Next]_vars

NextRerun ==
    Connect \/ Widgets \/ Compile \/ Query \/ Merge \/ Display \/ Rerun \/ EndRun

\* Runs of the script in which a run may be repeated with unchanged filters.
SpecRerun == Init /\ [][NextRerun]_vars

\* ------------------------------------------------------------------------
\* Vocabulary of the properties
\* ------------------------------------------------------------------------

\* The script has built its WHERE clause.
Built == pc \in {"compiled", "fetched", "merged", "done", "crashed"}

\* The script has received the rows of its queries.
Answered == pc \in {"fetched", "merged", "done", "crashed"}

\* s is digits and commas only, a comma exactly after every 14 digits:
\* '14-digit,14-digit,...' with nothing else in it.
StrictIdList(s) ==
    /\ Len(s) % (IdLen + 1) = IdLen
    /\ \A i \in 1..Len(s) :
          IF i % (IdLen + 1) = 0 THEN s[i] = "," ELSE s[i] \in Digits

\* The tokens of a strict ID list, in input order.
StrictTokens(s) ==
    [k \in 1..((Len(s) + 1) \div (IdLen + 1)) |->
        SubSeq(s, (k - 1) * (IdLen + 1) + 1, (k - 1) * (IdLen + 1) + IdLen)]

\* t is exactly 14 digits.
FourteenDigits(t) == Len(t) = IdLen /\ \A i \in 1..Len(t) : t[i] \in Digits

\* Some comma-separated token of s, taken as typed, is not exactly 14 digits.
SomeTokenNot14(s) ==
    \E i \in 1..Len(SplitComma(s)) : ~FourteenDigits(SplitComma(s)[i])

\* Some comma-separated token of s, with the blanks around it removed, is
\* not exactly 14 digits.
SomeTrimmedTokenNot14(s) ==
    \E i \in 1..Len(SplitComma(s)) : ~FourteenDigits(Strip(SplitComma(s)[i]))

\* Positions of the clauses of a given shape on a given column.
ClausesOf(kind, field) ==
    { i \in 1..Len(where_clauses) :
        where_clauses[i].kind = kind /\ where_clauses[i].field = field }

\* The parameters bound to the placeholders of clause i.
ParamsOf(i) ==
    SubSeq(params, TotalHoles(SubSeq(where_clauses, 1, i - 1)) + 1,
           TotalHoles(SubSeq(where_clauses, 1, i)))

DateActive == selected_start # NullDate /\ selected_end # NullDate

\* Number of active filters among the eight of the normal path.
ActiveCount ==
    Cardinality({ k \in 1..8 :
        \/ k = 1 /\ selected_origin # <<>>
        \/ k = 2 /\ selected_class_type # <<>>
        \/ k = 3 /\ selected_commodity # <<>>
        \/ k = 4 /\ selected_brand # <<>>
        \/ k = 5 /\ selected_violation_group # <<>>
        \/ k = 6 /\ DateActive
        \/ k = 7 /\ search_term # <<>>
        \/ k = 8 /\ exclude_term # <<>> })

\* Every active filter other than the search text has its clause.
OthersContribute ==
    /\ selected_origin # <<>> => ClausesOf("IN", "origin") # {}
    /\ selected_class_type # <<>> => ClausesOf("IN", "class_type") # {}
    /\ selected_commodity # <<>> => ClausesOf("IN", "ct_commodity") # {}
    /\ selected_brand # <<>> => ClausesOf("IN", "brand_name") # {}
    /\ selected_violation_group # <<>> => ClausesOf("EXISTS_IN", "violation_group") # {}
    /\ DateActive => ClausesOf("BETWEEN", "completed_date") # {}
    /\ exclude_term # <<>> => ClausesOf("NOT_OR", "") # {}

\* The search text is used whole as the substring search term: one search
\* clause, every placeholder of it bound to the lower-cased text between
\* '%' signs.
SearchesWholeText ==
    search_term # <<>> =>
        /\ Cardinality(ClausesOf("OR", "")) = 1
        /\ \A i \in ClausesOf("OR", "") :
              /\ ParamsOf(i) # <<>>
              /\ \A j \in 1..Len(ParamsOf(i)) :
                    ParamsOf(i)[j] = <<"%">> \o Lower(search_term) \o <<"%">>

\* ------------------------------------------------------------------------
\* C1.  A search text of the form 14-digit,14-digit,... compiles, whatever
\* the other filters are, to the single clause  c.cola_id IN (?,...)  with
\* one placeholder per token, and the parameters are the tokens in input
\* order; no other filter adds a clause or a parameter.
\* ------------------------------------------------------------------------
C1_IdListOverridesFilters ==
    (Built /\ StrictIdList(search_term)) =>
        /\ where_clauses =
              <<Clause("IN", "cola_id", FALSE, Len(StrictTokens(search_term)), <<>>)>>
        /\ params = StrictTokens(search_term)
        /\ where_sql = [present |-> TRUE, conj |-> where_clauses]

C1_Witness ==
    /\ pc = "compiled"
    /\ StrictIdList(search_term)
    /\ Len(params) = 2
    /\ exclude_term # <<>>
    /\ DateActive
    /\ selected_origin # <<>>
    /\ selected_class_type # <<>>
    /\ selected_commodity # <<>>
    /\ selected_brand # <<>>
    /\ selected_violation_group # <<>>

\* ------------------------------------------------------------------------
\* C2 as stated.  Whenever some comma-separated token of the search text,
\* as typed, is not exactly 14 digits, the fast path is not taken: no
\* cola_id IN clause, the whole text is the substring search term, and
\* every other active filter has its clause.
\* ------------------------------------------------------------------------
C2_AsStated ==
    (Built /\ SomeTokenNot14(search_term)) =>
        /\ ~is_cola_list
        /\ ClausesOf("IN", "cola_id") = {}
        /\ SearchesWholeText
        /\ OthersContribute

\* ------------------------------------------------------------------------
\* C2 amended.  Whenever some comma-separated token of the search text,
\* after the blanks around it are removed, is not exactly 14 digits, the
\* fast path is not taken: no cola_id IN clause, a non-empty text is used
\* whole as the substring search term, and every other active filter has
\* its clause.
\* ------------------------------------------------------------------------
C2_NoFastPathUnlessAllTrimmedTokens14 ==
    (Built /\ SomeTrimmedTokenNot14(search_term)) =>
        /\ ~is_cola_list
        /\ ClausesOf("IN", "cola_id") = {}
        /\ SearchesWholeText
        /\ OthersContribute

C2_Witness ==
    /\ pc = "compiled"
    /\ search_term = IdA \o <<",", "a", "b">>
    /\ ClausesOf("OR", "") # {}
    /\ ClausesOf("IN", "origin") # {}
    /\ ClausesOf("BETWEEN", "completed_date") # {}
    /\ ClausesOf("NOT_OR", "") # {}

\* ------------------------------------------------------------------------
\* C3.  When the search text is not an ID list, the predicate is the AND of
\* exactly one clause per active filter (origin, class type, commodity,
\* brand, violation group, date range, search text, exclude phrase) and of
\* nothing else; with no active filter there is no WHERE clause.
\* ------------------------------------------------------------------------
C3_OneClausePerActiveFilter ==
    (Built /\ ~is_cola_list) =>
        /\ Cardinality(ClausesOf("IN", "origin")) =
              (IF selected_origin # <<>> THEN 1 ELSE 0)
        /\ Cardinality(ClausesOf("IN", "class_type")) =
              (IF selected_class_type # <<>> THEN 1 ELSE 0)
        /\ Cardinality(ClausesOf("IN", "ct_commodity")) =
              (IF selected_commodity # <<>> THEN 1 ELSE 0)
        /\ Cardinality(ClausesOf("IN", "brand_name")) =
              (IF selected_brand # <<>> THEN 1 ELSE 0)
        /\ Cardinality(ClausesOf("EXISTS_IN", "violation_group")) =
              (IF selected_violation_group # <<>> THEN 1 ELSE 0)
        /\ Cardinality(ClausesOf("BETWEEN", "completed_date")) =
              (IF DateActive THEN 1 ELSE 0)
        /\ Cardinality(ClausesOf("OR", "")) = (IF search_term # <<>> THEN 1 ELSE 0)
        /\ Cardinality(ClausesOf("NOT_OR", "")) = (IF exclude_term # <<>> THEN 1 ELSE 0)
        /\ Len(where_clauses) = ActiveCount
        /\ where_sql.conj = where_clauses
        /\ where_sql.present <=> ActiveCount > 0

C3_Witness ==
    /\ pc = "compiled"
    /\ ~is_cola_list
    /\ ActiveCount = 8
    /\ Len(where_clauses) = 8

\* The selection of a categorical filter, by the column it tests.
SelectionOf(field) ==
    CASE field = "origin" -> selected_origin
      [] field = "class_type" -> selected_class_type
      [] field = "brand_name" -> selected_brand
      [] field = "ct_commodity" -> selected_commodity

\* The active filter on column field is one IN clause with a placeholder
\* and a parameter per selected value, coalescing NULL or not as given.
CompilesToIn(field, coalesce) ==
    SelectionOf(field) # <<>> =>
        /\ Cardinality(ClausesOf("IN", field)) = 1
        /\ \A i \in ClausesOf("IN", field) :
              /\ where_clauses[i].n = Len(SelectionOf(field))
              /\ where_clauses[i].coalesce = coalesce
              /\ ParamsOf(i) = SelectionOf(field)

\* Selecting 'UNKNOWN' in the filter on column field matches every record
\* whose field is NULL.
UnknownMatchesNull(field) ==
    \A i \in ClausesOf("IN", field) : \A k \in 1..Len(store.colas) :
        (store.colas[k][field] = NullText /\ UNKNOWN \in Range(SelectionOf(field)))
            => EvalClause(where_clauses[i], ParamsOf(i), store.colas[k], store) = "T"

\* ------------------------------------------------------------------------
\* C4 as stated.  In the normal path each active categorical filter
\* (origin, class type, brand, commodity) is  field IN (?,...)  with one
\* placeholder per selected value, and in each of them NULL is first
\* coalesced to 'UNKNOWN'.
\* ------------------------------------------------------------------------
C4_AsStated ==
    (Built /\ ~is_cola_list) =>
        /\ CompilesToIn("origin", TRUE)
        /\ CompilesToIn("class_type", TRUE)
        /\ CompilesToIn("brand_name", TRUE)
        /\ CompilesToIn("ct_commodity", TRUE)

\* ------------------------------------------------------------------------
\* C4 amended.  In the normal path each active origin, class type and
\* brand filter is  COALESCE(field, 'UNKNOWN') IN (?,...)  with one
\* placeholder per selected value, so that selecting 'UNKNOWN' matches the
\* records whose field is NULL; an active commodity filter is
\* c.ct_commodity IN (?,...)  with one placeholder per selected value and
\* no coalescing, so that a record whose commodity is NULL is in no result
\* of a commodity selection.
\* ------------------------------------------------------------------------
C4_CoalesceExceptCommodity ==
    (Built /\ ~is_cola_list) =>
        /\ CompilesToIn("origin", TRUE)
        /\ CompilesToIn("class_type", TRUE)
        /\ CompilesToIn("brand_name", TRUE)
        /\ CompilesToIn("ct_commodity", FALSE)
        /\ UnknownMatchesNull("origin")
        /\ UnknownMatchesNull("class_type")
        /\ UnknownMatchesNull("brand_name")
        /\ (Answered /\ selected_commodity # <<>>) =>
              \A k \in 1..Len(df) : df[k].ct_commodity # NullText

C4_Witness ==
    /\ pc = "fetched"
    /\ ~is_cola_list
    /\ UNKNOWN \in Range(selected_origin)
    /\ UNKNOWN \in Range(selected_class_type)
    /\ selected_commodity # <<>>
    /\ selected_brand = <<>>
    /\ \E k \in 1..Len(df) : df[k].origin = NullText /\ df[k].class_type = NullText

\* ------------------------------------------------------------------------
\* C5.  Date range 2024-01-01..2024-01-31, commodity = [wine], empty
\* search and no other filter compile to the commodity IN (?) clause
\* followed by the completed_date BETWEEN ? AND ? clause, with parameters
\* ['wine', '2024-01-01', '2024-01-31'] in that order.
\* ------------------------------------------------------------------------
C5_CommodityThenDateExample ==
    ( /\ Built
      /\ selected_start = 20240101
      /\ selected_end = 20240131
      /\ selected_commodity = <<wine>>
      /\ search_term = <<>>
      /\ exclude_term = <<>>
      /\ selected_origin = <<>>
      /\ selected_class_type = <<>>
      /\ selected_brand = <<>>
      /\ selected_violation_group = <<>> ) =>
        /\ where_clauses = << Clause("IN", "ct_commodity", FALSE, 1, <<>>),
                              Clause("BETWEEN", "completed_date", FALSE, 0, <<>>) >>
        /\ params = << <<"w", "i", "n", "e">>,
                       <<"2", "0", "2", "4", "-", "0", "1", "-", "0", "1">>,
                       <<"2", "0", "2", "4", "-", "0", "1", "-", "3", "1">> >>
        /\ where_sql = [present |-> TRUE, conj |-> where_clauses]

C5_Witness ==
    /\ pc = "compiled"
    /\ selected_start = 20240101
    /\ selected_end = 20240131
    /\ selected_commodity = <<wine>>
    /\ search_term = <<>>
    /\ exclude_term = <<>>
    /\ selected_origin = <<>>
    /\ selected_class_type = <<>>
    /\ selected_brand = <<>>
    /\ selected_violation_group = <<>>
    /\ Len(params) = 3

\* ------------------------------------------------------------------------
\* C6.  In the normal path a selected date range is one inclusive range
\* test on the completion date bound to (start, end): a record dated on
\* the start or on the end bound passes the test, and no record dated
\* outside [start, end] is in the result.
\* ------------------------------------------------------------------------
C6_DateRangeInclusive ==
    (Answered /\ ~is_cola_list /\ DateActive) =>
        /\ Cardinality(ClausesOf("BETWEEN", "completed_date")) = 1
        /\ \A i \in ClausesOf("BETWEEN", "completed_date") :
              /\ ParamsOf(i) = <<FormatDate(selected_start), FormatDate(selected_end)>>
              /\ \A k \in 1..Len(store.colas) :
                    ( /\ selected_start <= selected_end
                      /\ store.colas[k].completed_date \in {selected_start, selected_end} )
                        => EvalClause(where_clauses[i], ParamsOf(i), store.colas[k],
                                      store) = "T"
        /\ \A k \in 1..Len(df) :
              /\ df[k].completed_date # NullDate
              /\ selected_start <= df[k].completed_date
              /\ df[k].completed_date <= selected_end

C6_Witness ==
    /\ pc = "fetched"
    /\ ~is_cola_list
    /\ DateActive
    /\ selected_start = selected_end
    /\ \E k \in 1..Len(df) : df[k].completed_date = selected_end
    /\ \E k \in 1..Len(store.colas) :
          /\ store.colas[k].completed_date # NullDate
          /\ store.colas[k].completed_date < selected_start

\* needle occurs in hay as a run of consecutive characters.
Contains(hay, needle) ==
    \E i \in 0..(Len(hay) - Len(needle)) : SubSeq(hay, i + 1, i + Len(needle)) = needle

\* t is not NULL and contains s, letter case ignored.
HasSubstring(t, s) == t # NullText /\ Contains(Lower(t), Lower(s))

\* s, letter case ignored, is a literal substring of the identifier, brand
\* name, fanciful name, permit number or serial number of rec, of the text
\* of an annotation of rec, or of a violation-response row of rec.
LiteralHit(s, rec, st) ==
    \/ HasSubstring(rec.cola_id, s)
    \/ HasSubstring(rec.brand_name, s)
    \/ HasSubstring(rec.fanciful_name, s)
    \/ HasSubstring(rec.permit_num, s)
    \/ HasSubstring(rec.serial_num, s)
    \/ \E iai \in st.image_analysis_items :
          iai.cola_id = rec.cola_id /\ HasSubstring(iai.text, s)
    \/ \E ca \in st.cola_analysis :
          /\ ca.cola_id = rec.cola_id
          /\ (HasSubstring(ca.response, s) \/ HasSubstring(ca.metadata, s))

\* ------------------------------------------------------------------------
\* C7 as stated.  For a search text that is not an ID list, a record
\* satisfies the search clause exactly when the text, letter case ignored,
\* is a literal substring of one of the seven searched places; no pattern
\* semantics takes part.
\* ------------------------------------------------------------------------
C7_SearchIsLiteralSubstring ==
    (Answered /\ ~is_cola_list /\ search_term # <<>>) =>
        \A i \in ClausesOf("OR", "") : \A k \in 1..Len(store.colas) :
            (EvalClause(where_clauses[i], ParamsOf(i), store.colas[k], store) = "T")
                <=> LiteralHit(search_term, store.colas[k], store)

\* The exclude phrase matches rec in one of the places the search clause
\* looks at.
ExcludeHit(rec) ==
    OrAll(EvalConds(search_conditions,
                    Rep(<<"%">> \o Lower(exclude_term) \o <<"%">>,
                        CondHoles(search_conditions)),
                    rec, store)) = "T"

\* The search text matches rec in one of the places the search clause
\* looks at.
SearchHit(rec) ==
    OrAll(EvalConds(search_conditions,
                    Rep(<<"%">> \o Lower(search_term) \o <<"%">>,
                        CondHoles(search_conditions)),
                    rec, store)) = "T"

\* ------------------------------------------------------------------------
\* C8.  The exclude phrase compiles to NOT (.. OR ..) over the same places
\* as the search clause; with both texts set both clauses are AND-ed, and a
\* record that matches the search text and the exclude phrase is not in
\* the result.
\* ------------------------------------------------------------------------
C8_ExcludeNegatesSameFields ==
    (Built /\ ~is_cola_list /\ exclude_term # <<>>) =>
        /\ Cardinality(ClausesOf("NOT_OR", "")) = 1
        /\ \A i \in ClausesOf("NOT_OR", "") :
              /\ where_clauses[i].conds = search_conditions
              /\ ParamsOf(i) = Rep(<<"%">> \o Lower(exclude_term) \o <<"%">>,
                                   CondHoles(search_conditions))
              /\ where_sql.present /\ where_sql.conj[i] = where_clauses[i]
        /\ search_term # <<>> =>
              /\ Cardinality(ClausesOf("OR", "")) = 1
              /\ \A i \in ClausesOf("OR", "") :
                    /\ where_clauses[i].conds = search_conditions
                    /\ where_sql.conj[i] = where_clauses[i]
        /\ Answered =>
              \A k \in 1..Len(store.colas) :
                  ExcludeHit(store.colas[k]) => store.colas[k] \notin Range(df)

C8_Witness ==
    /\ pc = "fetched"
    /\ ~is_cola_list
    /\ search_term # <<>>
    /\ exclude_term # <<>>
    /\ df # <<>>
    /\ \E k \in 1..Len(store.colas) :
          /\ SearchHit(store.colas[k])
          /\ ExcludeHit(store.colas[k])
          /\ store.colas[k] \notin Range(df)

\* ------------------------------------------------------------------------
\* C9.  Two runs of the script with the same filter state (search, exclude,
\* date bounds, selections) build the same SQL predicate and the same
\* ordered parameter list, and show the same records; only the order in
\* which the records are shown may differ between the two runs.
\* ------------------------------------------------------------------------
C9_RecompileIdentical ==
    (last.valid /\ Built /\ filters = last.filters) =>
        /\ where_sql = last.where
        /\ params = last.params
        /\ pc = "merged" => Range(filtered) = Range(last.shown)

C9_Witness ==
    /\ last.valid
    /\ pc = "merged"
    /\ filters = last.filters
    /\ where_sql.present
    /\ Len(where_sql.conj) > 2
    /\ Len(filtered) > 1
    /\ filtered # last.shown

\* ------------------------------------------------------------------------
\* C10.  After the merge every record of the primary result carries an
\* image list and a violation list: the list the batch query returned for
\* its identifier, or the empty list when the batch result has no row for
\* that identifier; neither field is ever missing.
\* ------------------------------------------------------------------------
C10_EveryRecordCarriesBothLists ==
    pc = "merged" =>
        /\ Len(filtered) = Len(df)
        /\ \A k \in 1..Len(df) : \E j \in 1..Len(filtered) :
              filtered[j].cola_id = df[k].cola_id
        /\ \A j \in 1..Len(filtered) :
              /\ "images" \in DOMAIN filtered[j]
              /\ "violations" \in DOMAIN filtered[j]
              /\ filtered[j].images =
                    (IF filtered[j].cola_id \in DOMAIN images_data
                     THEN images_data[filtered[j].cola_id] ELSE <<>>)
              /\ filtered[j].violations =
                    (IF filtered[j].cola_id \in DOMAIN violations_data
                     THEN violations_data[filtered[j].cola_id] ELSE <<>>)

C10_Witness ==
    /\ pc = "merged"
    /\ \E j, k \in 1..Len(filtered) :
          /\ filtered[j].cola_id \notin DOMAIN images_data
          /\ filtered[j].cola_id \notin DOMAIN violations_data
          /\ filtered[j].images = <<>>
          /\ filtered[j].violations = <<>>
          /\ filtered[k].images # <<>>
          /\ filtered[k].violations # <<>>

\* ------------------------------------------------------------------------
\* The page: message, summary, chart and records
\* ------------------------------------------------------------------------

\* The run has passed the part of the page below the sidebar.
PageEnded == pc \in {"done", "crashed"}

Min(a, b) == IF a < b THEN a ELSE b

\* The events of the log that put a chart, a summary or a record on the page.
ResultEvents ==
    {"commodity summary", "chart: nothing to plot", "st.altair_chart",
     "chart: exception", "st.write blank", "st.divider", "render records"}

\* C11: when the primary query yields n records, exactly min(n, 100) records
\* are rendered, the results message reports n, and it carries the note
\* 'limiting to 100 results displayed' exactly when n > 100.
C11_RendersMinOfCountAndLimit ==
    PageEnded =>
        /\ Len(rendered) = Min(Len(df), DisplayLimit)
        /\ results_message.valid
        /\ results_message.count = Len(df)
        /\ results_message.limited <=> (Len(df) > DisplayLimit)

\* C12: when the primary query matches no record, the message reports a
\* count of 0, no record is rendered, and neither the chart nor the
\* commodity distribution summary is attempted.
C12_EmptyResultShowsOnlyMessage ==
    (PageEnded /\ df = NoRows) =>
        /\ results_message.valid
        /\ results_message.count = 0
        /\ ~results_message.limited
        /\ rendered = NoRows
        /\ chart = "skipped"
        /\ commodity_summary = "none"
        /\ Range(log) \cap ResultEvents = {}
        /\ pc = "done"

C12_Witness ==
    /\ pc = "done"
    /\ df = NoRows
    /\ search_term # <<>>
    /\ "st.write results_message" \in Range(log)

\* ------------------------------------------------------------------------
\* The statements sent to the database
\* ------------------------------------------------------------------------

\* The events of the log that are SQL statements executed on the connection.
SqlStatements ==
    {"SELECT 1", "SELECT MIN(completed_date)", "SELECT MAX(completed_date)",
     "SELECT DISTINCT origin", "SELECT DISTINCT class_type",
     "SELECT DISTINCT brand_name", "SELECT DISTINCT violation_group",
     "SELECT DISTINCT ct_commodity", "primary query", "images batch",
     "violations batch"}

\* The statements of the run, in the order they were sent.
SqlLog == SelectSeq(log, LAMBDA e : e \in SqlStatements)

\* How often the run did e.
Count(e) == Cardinality({ i \in 1..Len(log) : log[i] = e })

\* The statements every run sends before the primary query: the probe of
\* the connection and the seven statements that fill the sidebar.
SetupStatements ==
    <<"SELECT 1", "SELECT MIN(completed_date)", "SELECT MAX(completed_date)",
      "SELECT DISTINCT origin", "SELECT DISTINCT class_type",
      "SELECT DISTINCT brand_name", "SELECT DISTINCT violation_group",
      "SELECT DISTINCT ct_commodity">>

\* C13 as stated: every page render sends exactly three statements, the
\* primary query and the two batch queries, each once, and no other.
C13_AsStated ==
    PageEnded =>
        /\ Count("primary query") = 1
        /\ Count("images batch") = 1
        /\ Count("violations batch") = 1
        /\ Len(SqlLog) = 3

\* C13: every page render sends the primary query exactly once; when it
\* returned at least one row the images batch and the violations batch are
\* each sent exactly once after it, and neither is sent when it returned no
\* row; before it the run sends the connection probe and the seven sidebar
\* statements, each once; no statement is sent per record.
C13_OnePrimaryAndAtMostTwoBatches ==
    PageEnded =>
        SqlLog = SetupStatements \o <<"primary query">>
                    \o (IF df # NoRows THEN <<"images batch", "violations batch">>
                        ELSE <<>>)

C13_Witness ==
    /\ PageEnded
    /\ Len(df) >= 2
    /\ Count("images batch") = 1
    /\ Count("violations batch") = 1

\* ------------------------------------------------------------------------
\* The order of the steps of a run
\* ------------------------------------------------------------------------

\* Where the run did e (the first time).
Pos(e) == CHOOSE i \in 1..Len(log) : log[i] = e /\ \A j \in 1..(i - 1) : log[j] # e

\* The run did a, and did b only after it.
Precedes(a, b) ==
    /\ a \in Range(log)
    /\ b \in Range(log) => Pos(a) < Pos(b)

\* The merged result: every row of the primary query with its two lists.
MergedResult == [i \in 1..Len(df) |-> Enrich(df[i], images_data, violations_data)]

\* s is a reordering of t.
IsPermutation(s, t) ==
    /\ Len(s) = Len(t)
    /\ \E p \in [1..Len(s) -> 1..Len(s)] :
          /\ \A i, j \in 1..Len(s) : i # j => p[i] # p[j]
          /\ \A i \in 1..Len(s) : s[i] = t[p[i]]

\* The steps of the run up to the cut happened in the order of the script,
\* and the batch results hold identifiers of the primary rows only.
StepsInOrder ==
    /\ Precedes("primary query", "cola_ids")
    /\ Precedes("cola_ids", "images batch")
    /\ Precedes("cola_ids", "violations batch")
    /\ ("images batch" \in Range(log)) => Precedes("images batch", "merge")
    /\ ("violations batch" \in Range(log)) => Precedes("violations batch", "merge")
    /\ Precedes("cola_ids", "merge")
    /\ Precedes("merge", "random.shuffle")
    /\ ("filtered[:100]" \in Range(log)) => Precedes("random.shuffle", "filtered[:100]")
    /\ ("render records" \in Range(log)) => Precedes("filtered[:100]", "render records")
    /\ cola_ids = [i \in 1..Len(df) |-> df[i].cola_id]
    /\ (DOMAIN images_data) \cup (DOMAIN violations_data) \subseteq Range(cola_ids)
    /\ IsPermutation(filtered, MergedResult)

\* C14: in every run the primary query completes, the identifiers are taken
\* from its rows, the batch queries run keyed by exactly those identifiers,
\* the results are merged, then shuffled, then cut to the first 100, and only
\* then rendered; the rendered records are the first min(n, 100) elements of
\* a permutation of the merged result.
C14_StepsInOrderThenAllRendered ==
    PageEnded =>
        /\ StepsInOrder
        /\ rendered = Take(filtered, Min(Len(df), DisplayLimit))

\* ------------------------------------------------------------------------
\* Failures of the connection
\* ------------------------------------------------------------------------

\* The events of the log that draw a filter widget.
WidgetEvents == {"text inputs", "date input", "multiselects"}

\* The run has been halted by st.stop().
Halted == pc = "stopped" /\ log # <<>> /\ log[Len(log)] = "st.stop"

\* Nothing below the connection has happened: no widget, no message, no
\* chart, no summary and no record.
NothingShown ==
    /\ Range(log) \cap (WidgetEvents \cup ResultEvents) = {}
    /\ "st.write results_message" \notin Range(log)
    /\ ~results_message.valid
    /\ rendered = NoRows

\* C15: when the token is missing or empty an error is reported and the run
\* halts: no connection is attempted, no query is executed, and no filter
\* widget, result message or record is rendered afterwards.
C15_MissingTokenHalts ==
    ((token = NullText \/ token = <<>>) /\ pc # "idle") =>
        /\ Halted
        /\ "st.error: token not found" \in Range(log)
        /\ "duckdb.connect" \notin Range(log)
        /\ SqlLog = <<>>
        /\ NothingShown

C15_Witness == Halted /\ token = <<>> /\ "st.error: token not found" \in Range(log)

\* C16: when connecting or the probe query fails, the failure is reported
\* with guidance text and the run stops: the connection is attempted at most
\* once in a run, get_motherduck_connection returns nothing to main, and no
\* filter or result query is executed.
C16_ConnectionFailureHalts ==
    /\ Count("duckdb.connect") <= 1
    /\ (/\ token # NullText
        /\ token # <<>>
        /\ ~(token = GoodToken /\ database = "up")
        /\ pc # "idle") =>
            /\ Halted
            /\ Count("duckdb.connect") = 1
            /\ "st.error: failed to connect" \in Range(log)
            /\ "st.info: troubleshooting" \in Range(log)
            /\ Range(SqlLog) \subseteq {"SELECT 1"}
            /\ Count("SELECT 1") <= 1
            /\ NothingShown
            /\ ~Built

C16_Witness ==
    /\ Halted
    /\ token = GoodToken
    /\ database = "probe_fails"
    /\ SqlLog = <<"SELECT 1">>

\* ------------------------------------------------------------------------
\* Aggregates that do not parse
\* ------------------------------------------------------------------------

\* The store with dates, read through a connection that works, in which the
\* images aggregate or the violations aggregate of one COLA is malformed.
InitMalformed ==
    /\ store = StoreMain
    /\ token = GoodToken
    /\ database = "up"
    /\ corrupt \in { [images |-> {IdA}, violations |-> {}],
                     [images |-> {}, violations |-> {IdA}] }
    /\ landing = NoUrl
    /\ call = NoCall
    /\ Fresh

\* Runs of the script against a store with a malformed aggregate.
SpecMalformed == InitMalformed /\ [][Next]_vars

\* The list the record of id carries after the merge, by field.
ListOf(id, field) ==
    LET j == CHOOSE k \in 1..Len(filtered) : filtered[k].cola_id = id
    IN  IF field = "images" THEN filtered[j].images ELSE filtered[j].violations

\* C17: when the aggregate of an image row or of a violation row does not
\* parse, exactly the corresponding list of that record becomes empty; the
\* other list of that record and both lists of every other record are what
\* the batch queries returned, and the run goes on to the page.
C17_ParseFailureEmptiesOneList ==
    (pc \in {"merged", "done", "crashed"}) =>
        /\ Len(filtered) = Len(df)
        /\ "st.stop" \notin Range(log)
        /\ \A id \in Range(cola_ids) :
              /\ ListOf(id, "images") =
                    (IF id \in corrupt.images THEN <<>>
                     ELSE GetOrEmpty(ImagesBatch(cola_ids, store), id))
              /\ ListOf(id, "violations") =
                    (IF id \in corrupt.violations THEN <<>>
                     ELSE GetOrEmpty(ViolationsBatch(cola_ids, store), id))

C17_Witness ==
    /\ pc = "done"
    /\ corrupt.images = {IdA}
    /\ \E i, j \in 1..Len(rendered) :
          /\ rendered[i].cola_id = IdA
          /\ rendered[i].images = <<>>
          /\ rendered[i].violations # <<>>
          /\ rendered[j].cola_id = IdB
          /\ rendered[j].images # <<>>

\* C18: when building the chart raises an exception, it is suppressed with a
\* blank output and the run goes on: the records rendered afterwards are
\* those rendered when the chart succeeds, and the results message, shown
\* before the chart, is unchanged.
C18_ChartFailureIsSuppressed ==
    (PageEnded /\ chart = "blank") =>
        /\ Precedes("st.write results_message", "chart: exception")
        /\ Precedes("chart: exception", "st.write blank")
        /\ Precedes("st.write blank", "filtered[:100]")
        /\ results_message.valid
        /\ results_message.count = Len(filtered)
        /\ rendered = UntilFailure(Take(filtered, DisplayLimit))
        /\ (rendered # NoRows) => Precedes("st.write blank", "render records")

C18_Witness ==
    /\ pc = "done"
    /\ chart = "blank"
    /\ Len(rendered) = 2
    /\ selected_start # NullDate

\* ------------------------------------------------------------------------
\* Opening the page at an address, and changing a widget
\* ------------------------------------------------------------------------

\* parse_url_list: the parts between commas, stripped, the empty ones dropped.
parse_url_list(param_value) ==
    IF param_value = <<>> THEN <<>>
    ELSE LET parts == SplitComma(param_value)
         IN  SelectSeq([i \in 1..Len(parts) |-> Strip(parts[i])],
                       LAMBDA part : part # <<>>)

\* datetime.strptime(t, '%Y-%m-%d') succeeds, for a text of the zero-padded
\* form.
IsDateText(t) ==
    /\ Len(t) = 10
    /\ t[5] = "-"
    /\ t[8] = "-"
    /\ \A i \in {1, 2, 3, 4, 6, 7, 9, 10} : t[i] \in Digits
    /\ Month(ParseDate(t)) \in 1..12
    /\ Day(ParseDate(t)) \in 1..DaysIn(Year(ParseDate(t)), Month(ParseDate(t)))

\* A variant of the default of the date widget: no range unless the address
\* gives one.
default_date_range_OnlyFromUrl(u, st) ==
    IF min_date(st) # NullDate /\ max_date(st) # NullDate
         /\ UrlGet(u, "start_date") # <<>> /\ UrlGet(u, "end_date") # <<>>
         /\ IsDateText(UrlGet(u, "start_date")) /\ IsDateText(UrlGet(u, "end_date"))
    THEN <<ParseDate(UrlGet(u, "start_date")), ParseDate(UrlGet(u, "end_date"))>>
    ELSE <<NullDate, NullDate>>

\* A variant of the default of the date widget that takes each end from the
\* address on its own.
default_date_range_EachEndAlone(u, st) ==
    IF min_date(st) # NullDate /\ max_date(st) # NullDate
    THEN << IF UrlGet(u, "start_date") # <<>> /\ IsDateText(UrlGet(u, "start_date"))
            THEN ParseDate(UrlGet(u, "start_date")) ELSE default_start(st),
            IF UrlGet(u, "end_date") # <<>> /\ IsDateText(UrlGet(u, "end_date"))
            THEN ParseDate(UrlGet(u, "end_date")) ELSE max_date(st) >>
    ELSE <<NullDate, NullDate>>

\* default_date_range: both dates of the address when both are given and
\* both parse, otherwise the last 14 days of the data; no range without
\* completion dates in the store.
default_date_range(u, st) ==
    IF min_date(st) # NullDate /\ max_date(st) # NullDate
    THEN IF /\ UrlGet(u, "start_date") # <<>> /\ UrlGet(u, "end_date") # <<>>
            /\ IsDateText(UrlGet(u, "start_date"))
            /\ IsDateText(UrlGet(u, "end_date"))
         THEN <<ParseDate(UrlGet(u, "start_date")), ParseDate(UrlGet(u, "end_date"))>>
         ELSE <<default_start(st), max_date(st)>>
    ELSE <<NullDate, NullDate>>

beer == <<"b", "e", "e", "r">>
distilled_spirits ==
    <<"d", "i", "s", "t", "i", "l", "l", "e", "d", "_", "s", "p", "i", "r", "i", "t", "s">>

\* The commodity options in display order: wine, beer, distilled spirits
\* (the stores hold no other commodity).
commodity_display_options(st) ==
    SelectSeq(<<wine, beer, distilled_spirits>>, LAMBDA c : c \in commodity_options(st))

\* The widgets accept the defaults the address gives them: every default of
\* a multi-select is one of its options and the default range lies inside
\* [min_date, max_date].
DefaultsAccepted(u, st) ==
    /\ Range(parse_url_list(UrlGet(u, "origin"))) \subseteq origin_options(st)
    /\ Range(parse_url_list(UrlGet(u, "class_type"))) \subseteq class_type_options(st)
    /\ Range(parse_url_list(UrlGet(u, "brand"))) \subseteq brand_options(st)
    /\ Range(parse_url_list(UrlGet(u, "violation_group")))
          \subseteq violation_group_options(st)
    /\ LET r == default_date_range(u, st)
       IN  r[1] # NullDate => (min_date(st) <= r[1] /\ r[1] <= r[2] /\ r[2] <= max_date(st))

\* The first run after the page is opened: every widget returns the default
\* it takes from the address.
PageLoad ==
    /\ pc = "connected"
    /\ interactions = 0
    /\ DefaultsAccepted(url, store)
    /\ Sidebar(UrlGet(url, "search"), UrlGet(url, "exclude"),
               default_date_range(url, store)[1], default_date_range(url, store)[2],
               SelectSeq(commodity_display_options(store),
                         LAMBDA c : c \in Range(parse_url_list(UrlGet(url, "commodity")))),
               parse_url_list(UrlGet(url, "origin")),
               parse_url_list(UrlGet(url, "class_type")),
               parse_url_list(UrlGet(url, "brand")),
               parse_url_list(UrlGet(url, "violation_group")))

\* A run after the user changed a widget: every widget returns its state.
\* In the run that follows 'Show All Available Dates' the date widget has a
\* new default, which makes it a new widget that returns that default.
Reread ==
    /\ pc = "connected"
    /\ interactions > 0
    /\ Sidebar(search_term, exclude_term,
               IF pressed THEN default_date_range(url, store)[1] ELSE selected_start,
               IF pressed THEN default_date_range(url, store)[2] ELSE selected_end,
               selected_commodity, selected_origin, selected_class_type,
               selected_brand, selected_violation_group)

\* Number of widget changes followed in a session.
MaxInteractions == 2

\* The widgets hold new values and the script is about to run again; the
\* address stays as the last run left it.
Changed(s, x, ds, de, com, org, cls, br, vg) ==
    /\ search_term' = s
    /\ exclude_term' = x
    /\ selected_start' = ds
    /\ selected_end' = de
    /\ selected_commodity' = com
    /\ selected_origin' = org
    /\ selected_class_type' = cls
    /\ selected_brand' = br
    /\ selected_violation_group' = vg
    /\ interactions' = interactions + 1
    /\ is_cola_list' = FALSE
    /\ cola_ids' = <<>>
    /\ where_clauses' = <<>>
    /\ params' = <<>>
    /\ where_sql' = NoWhere
    /\ df' = NoRows
    /\ images_data' = NoMap
    /\ violations_data' = NoMap
    /\ filtered' = NoRows
    /\ results_message' = NoMessage
    /\ commodity_summary' = "none"
    /\ chart' = "none"
    /\ rendered' = NoRows
    /\ log' = <<>>
    /\ pressed' = FALSE
    /\ pc' = "idle"
    /\ UNCHANGED <<environment, url, last>>

\* The user changes one widget of the sidebar, which makes the script run
\* again.
Interact ==
    /\ pc \in {"done", "crashed"}
    /\ interactions < MaxInteractions
    /\ \/ \E s \in SearchTexts \ {search_term} :
             Changed(s, exclude_term, selected_start, selected_end,
                     selected_commodity, selected_origin, selected_class_type,
                     selected_brand, selected_violation_group)
       \/ \E x \in ExcludeTexts \ {exclude_term} :
             Changed(search_term, x, selected_start, selected_end,
                     selected_commodity, selected_origin, selected_class_type,
                     selected_brand, selected_violation_group)
       \/ \E dr \in DateRanges(store) \ {<<selected_start, selected_end>>} :
             Changed(search_term, exclude_term, dr[1], dr[2],
                     selected_commodity, selected_origin, selected_class_type,
                     selected_brand, selected_violation_group)
       \/ \E com \in ListsOf(commodity_options(store), MaxSel) \ {selected_commodity} :
             Changed(search_term, exclude_term, selected_start, selected_end,
                     com, selected_origin, selected_class_type,
                     selected_brand, selected_violation_group)
       \/ \E org \in ListsOf(origin_options(store), MaxSel) \ {selected_origin} :
             Changed(search_term, exclude_term, selected_start, selected_end,
                     selected_commodity, org, selected_class_type,
                     selected_brand, selected_violation_group)
       \/ \E cls \in ListsOf(class_type_options(store), MaxSel) \ {selected_class_type} :
             Changed(search_term, exclude_term, selected_start, selected_end,
                     selected_commodity, selected_origin, cls,
                     selected_brand, selected_violation_group)
       \/ \E br \in ListsOf(brand_options(store), MaxSel) \ {selected_brand} :
             Changed(search_term, exclude_term, selected_start, selected_end,
                     selected_commodity, selected_origin, selected_class_type,
                     br, selected_violation_group)
       \/ \E vg \in ListsOf(violation_group_options(store), MaxSel)
                      \ {selected_violation_group} :
             Changed(search_term, exclude_term, selected_start, selected_end,
                     selected_commodity, selected_origin, selected_class_type,
                     selected_brand, vg)

\* The value an address leaves out.
Absent == NullText

DateTextA == FormatDate(20240101)
DateTextB == FormatDate(20240131)
BadDateText == FormatDate(20241301)

\* The values an address can give a key, or none: option values of the
\* store, two values for the origin.
UrlChoices(k, st) ==
    {Absent} \cup
    CASE k = "search" -> {<<"a", "B">>, IdA}
      [] k = "exclude" -> {<<"b", "c">>}
      [] k = "start_date" -> {DateTextA, BadDateText}
      [] k = "end_date" -> {DateTextB}
      [] k = "commodity" -> commodity_options(st)
      [] k = "origin" ->
            { JoinComma(l) : l \in ListsOf(origin_options(st), MaxSel) \ {<<>>} }
      [] k = "class_type" -> class_type_options(st)
      [] k = "brand" -> brand_options(st)
      [] k = "violation_group" -> violation_group_options(st)

\* The address that gives every key its value, leaving out the absent ones.
MakeUrl(f) == [k \in { key \in UrlKeys : f[key] # Absent } |-> f[k]]

\* The addresses a page over store st is opened with.
Urls(st) ==
    { MakeUrl([search |-> s, exclude |-> x, start_date |-> ds, end_date |-> de,
               commodity |-> com, origin |-> org, class_type |-> cls,
               brand |-> br, violation_group |-> vg]) :
        s \in UrlChoices("search", st), x \in UrlChoices("exclude", st),
        ds \in UrlChoices("start_date", st), de \in UrlChoices("end_date", st),
        com \in UrlChoices("commodity", st), org \in UrlChoices("origin", st),
        cls \in UrlChoices("class_type", st), br \in UrlChoices("brand", st),
        vg \in UrlChoices("violation_group", st) }

\* A page over a reachable store is opened at some address.
InitPageLoad ==
    /\ store \in Stores
    /\ token = GoodToken
    /\ database = "up"
    /\ corrupt = NoCorruption
    /\ landing \in Urls(store)
    /\ call = NoCall
    /\ Fresh

NextPageLoad == Connect \/ PageLoad \/ Compile \/ Query \/ Merge \/ Display \/ EndRun

\* Pages opened at an address, without any change of a widget.
SpecPageLoad == InitPageLoad /\ [][NextPageLoad]_vars

\* An address that names every filter.
FullUrl(st) ==
    CHOOSE u \in Urls(st) :
        /\ DOMAIN u = UrlKeys
        /\ u["search"] = <<"a", "B">>
        /\ u["start_date"] = DateTextA

\* A page is opened at the bare address or at one that names every filter.
InitSession ==
    /\ store \in Stores
    /\ token = GoodToken
    /\ database = "up"
    /\ corrupt = NoCorruption
    /\ landing \in {NoUrl, FullUrl(store)}
    /\ call = NoCall
    /\ Fresh

NextSession ==
    Connect \/ PageLoad \/ Reread \/ Compile \/ Query \/ Merge \/ Display
      \/ Interact \/ EndRun

\* Pages opened at an address, then changed by the user one widget at a time.
SpecSession == InitSession /\ [][NextSession]_vars

\* The value the address should hold for key k, or Absent if the filter of
\* k is not active.
MirrorOf(k) ==
    CASE k = "search" -> IF search_term # <<>> THEN search_term ELSE Absent
      [] k = "exclude" -> IF exclude_term # <<>> THEN exclude_term ELSE Absent
      [] k = "start_date" -> IF DateActive THEN FormatDate(selected_start) ELSE Absent
      [] k = "end_date" -> IF DateActive THEN FormatDate(selected_end) ELSE Absent
      [] k = "commodity" ->
            IF selected_commodity # <<>> THEN JoinComma(selected_commodity) ELSE Absent
      [] k = "origin" ->
            IF selected_origin # <<>> THEN JoinComma(selected_origin) ELSE Absent
      [] k = "class_type" ->
            IF selected_class_type # <<>> THEN JoinComma(selected_class_type) ELSE Absent
      [] k = "brand" ->
            IF selected_brand # <<>> THEN JoinComma(selected_brand) ELSE Absent
      [] k = "violation_group" ->
            IF selected_violation_group # <<>>
            THEN JoinComma(selected_violation_group) ELSE Absent

\* The run is past the update of the address.
Updated == pc \in {"widgets", "compiled", "fetched", "merged", "done", "crashed"}

\* C19: after every run, whatever the sequence of filter changes (clearing
\* a filter that an earlier run had set included), the query parameters of
\* the address mirror the filter state: each of the nine keys is present
\* exactly when its filter is active, with the current value.
C19_UrlMirrorsFilterState ==
    Updated =>
        \A k \in UrlKeys :
            /\ (k \in DOMAIN url) <=> (MirrorOf(k) # Absent)
            /\ (k \in DOMAIN url) => url[k] = MirrorOf(k)

\* ------------------------------------------------------------------------
\* Filters the address leaves out
\* ------------------------------------------------------------------------

\* The address the page was opened with gives no value for key k.
LeftOut(k) == k \notin DOMAIN landing

\* No clause of the predicate comes from one of the seven filters other
\* than the date range whose key the address leaves out.
LeftOutFiltersHaveNoClause ==
    /\ LeftOut("search") =>
          ClausesOf("OR", "") = {} /\ ClausesOf("IN", "cola_id") = {}
    /\ LeftOut("exclude") => ClausesOf("NOT_OR", "") = {}
    /\ LeftOut("commodity") => ClausesOf("IN", "ct_commodity") = {}
    /\ LeftOut("origin") => ClausesOf("IN", "origin") = {}
    /\ LeftOut("class_type") => ClausesOf("IN", "class_type") = {}
    /\ LeftOut("brand") => ClausesOf("IN", "brand_name") = {}
    /\ LeftOut("violation_group") => ClausesOf("EXISTS_IN", "violation_group") = {}

\* C20 as stated: on a page load, a filter whose key the address leaves out
\* is not applied, for each of the nine keys; there is no date clause when
\* start_date and end_date are both left out.
C20_AsStated ==
    (Built /\ interactions = 0) =>
        /\ LeftOutFiltersHaveNoClause
        /\ (LeftOut("start_date") /\ LeftOut("end_date")) =>
              ClausesOf("BETWEEN", "completed_date") = {}

\* C20: on a page load, each of the search, exclude, commodity, origin,
\* class type, brand and violation group filters whose key the address
\* leaves out contributes no clause.  When start_date or end_date is left
\* out the date filter is still applied with the default range, from
\* max(min_date, max_date - 14 days) to max_date: the predicate has one
\* BETWEEN clause bound to these two dates, unless the search text is an
\* identifier list or the store holds no completion date, in which case it
\* has none.
C20_LeftOutFiltersExceptDateNotApplied ==
    (Built /\ interactions = 0) =>
        /\ LeftOutFiltersHaveNoClause
        /\ (LeftOut("start_date") \/ LeftOut("end_date")) =>
              IF is_cola_list \/ max_date(store) = NullDate
              THEN ClausesOf("BETWEEN", "completed_date") = {}
              ELSE /\ Cardinality(ClausesOf("BETWEEN", "completed_date")) = 1
                   /\ \A i \in ClausesOf("BETWEEN", "completed_date") :
                         ParamsOf(i) = <<FormatDate(default_start(store)),
                                         FormatDate(max_date(store))>>

C20_Witness ==
    /\ pc = "compiled"
    /\ interactions = 0
    /\ DOMAIN landing = {"commodity"}
    /\ Len(where_clauses) = 2
    /\ ClausesOf("BETWEEN", "completed_date") = {2}
    /\ params = <<wine, FormatDate(20240117), FormatDate(20240131)>>

\* ------------------------------------------------------------------------
\* The flag of an origin
\* ------------------------------------------------------------------------

FlagUS == <<"U", "S">>
Globe == <<"g", "l", "o", "b", "e">>
NoFlag == <<>>

\* flag_map, in the order of the dictionary: the entries of the United
\* States, France, Germany, Australia, Austria, Ukraine, Russia, the United
\* Kingdom and Thailand.
flag_map ==
    << [country |-> <<"u", "n", "i", "t", "e", "d", " ", "s", "t", "a", "t", "e", "s">>, flag |-> <<"U", "S">>],
       [country |-> <<"u", "s", "a">>, flag |-> <<"U", "S">>],
       [country |-> <<"u", "s">>, flag |-> <<"U", "S">>],
       [country |-> <<"a", "m", "e", "r", "i", "c", "a", "n">>, flag |-> <<"U", "S">>],
       [country |-> <<"f", "r", "a", "n", "c", "e">>, flag |-> <<"F", "R">>],
       [country |-> <<"f", "r", "e", "n", "c", "h">>, flag |-> <<"F", "R">>],
       [country |-> <<"g", "e", "r", "m", "a", "n", "y">>, flag |-> <<"D", "E">>],
       [country |-> <<"g", "e", "r", "m", "a", "n">>, flag |-> <<"D", "E">>],
       [country |-> <<"a", "u", "s", "t", "r", "a", "l", "i", "a">>, flag |-> <<"A", "U">>],
       [country |-> <<"a", "u", "s", "t", "r", "a", "l", "i", "a", "n">>, flag |-> <<"A", "U">>],
       [country |-> <<"a", "u", "s", "t", "r", "i", "a">>, flag |-> <<"A", "T">>],
       [country |-> <<"u", "k", "r", "a", "i", "n", "e">>, flag |-> <<"U", "A">>],
       [country |-> <<"r", "u", "s", "s", "i", "a">>, flag |-> <<"R", "U">>],
       [country |-> <<"u", "k">>, flag |-> <<"G", "B">>],
       [country |-> <<"t", "h", "a", "i", "l", "a", "n", "d">>, flag |-> <<"T", "H">>],
       [country |-> <<"t", "h", "a", "i">>, flag |-> <<"T", "H">>] >>

\* ct_source and str(ct_source).lower().strip() == word
SourceIs(ct_source, word) ==
    ct_source # NullText /\ ct_source # <<>> /\ Strip(Lower(ct_source)) = word

\* 'needle in hay' on text.
In(needle, hay) ==
    \E i \in 0..(Len(hay) - Len(needle)) : SubSeq(hay, i + 1, i + Len(needle)) = needle

\* The entries of flag_map whose country occurs in the text.
PartialMatches(origin_lower) ==
    { i \in 1..Len(flag_map) : In(flag_map[i].country, origin_lower) }

\* get_flag_icon(origin, ct_source)
get_flag_icon(origin, ct_source) ==
    IF SourceIs(ct_source, <<"d", "o", "m", "e", "s", "t", "i", "c">>) THEN FlagUS
    ELSE IF origin = NullText \/ origin = <<>>
         THEN IF SourceIs(ct_source, <<"i", "m", "p", "o", "r", "t">>) THEN Globe ELSE NoFlag
         ELSE LET origin_lower == Strip(Lower(origin))
                  exact == { i \in 1..Len(flag_map) : flag_map[i].country = origin_lower }
                  hits == PartialMatches(origin_lower)
              IN  IF In(<<"d", "o", "m", "e", "s", "t", "i", "c">>, origin_lower) THEN FlagUS
                  ELSE IF exact # {} THEN flag_map[CHOOSE i \in exact : TRUE].flag
                  ELSE IF hits # {}
                       THEN flag_map[CHOOSE i \in hits : \A j \in hits : i <= j].flag
                  ELSE IF SourceIs(ct_source, <<"i", "m", "p", "o", "r", "t">>) THEN Globe
                  ELSE IF origin_lower # <<>>
                          /\ origin_lower \notin {<<"u", "n", "k", "n", "o", "w", "n">>,
                                                  <<"n", "/", "a">>, <<"n", "o", "n", "e">>}
                       THEN Globe
                       ELSE NoFlag

\* Origins a record can carry.
Origins ==
    { NullText,
      <<"F", "r", "a", "n", "c", "e">>,
      <<"b", "o", "r", "d", "e", "a", "u", "x", ",", " ", "f", "r", "a", "n", "c", "e">>,
      <<"S", "O", "U", "T", "H", " ", "A", "U", "S", "T", "R", "A", "L", "I", "A">>,
      <<"a", "u", "s", "t", "r", "a", "l", "i", "a", "n", " ", "c", "a", "p", "i", "t", "a", "l">>,
      <<"l", "o", "w", "e", "r", " ", "a", "u", "s", "t", "r", "i", "a">>,
      <<"r", "u", "s", "s", "i", "a", "n", " ", "r", "i", "v", "e", "r">>,
      <<"w", "e", "s", "t", " ", "g", "e", "r", "m", "a", "n", "y">>,
      <<"g", "e", "r", "m", "a", "n">>,
      <<"u", "k", "r", "a", "i", "n", "e", " ", "r", "e", "g", "i", "o", "n">>,
      <<"u", "k">>,
      <<"t", "h", "a", "i">>,
      <<"b", "e", "l", "a", "r", "u", "s">>,
      <<"a", "t", "l", "a", "n", "t", "i", "s">>,
      <<"D", "o", "m", "e", "s", "t", "i", "c", " ", "w", "i", "n", "e">>,
      <<"u", "n", "k", "n", "o", "w", "n">>,
      <<"n", "/", "a">>,
      <<"n", "o", "n", "e">>,
      <<" ", "U", "S", "A", " ">> }

\* Values of ct_source.
Sources ==
    { NullText, <<>>, <<"i", "m", "p", "o", "r", "t">>,
      <<"d", "o", "m", "e", "s", "t", "i", "c">>,
      <<" ", "D", "o", "m", "e", "s", "t", "i", "c", " ">> }

\* ------------------------------------------------------------------------
\* Functions called on their own
\* ------------------------------------------------------------------------

\* Number of comma-separated parts of a search text.
MaxParts == 3

\* A part of a search text as typed, and what is left of it without the
\* whitespace around it.
Parts ==
    { [typed |-> IdA, trimmed |-> IdA],
      [typed |-> IdB, trimmed |-> IdB],
      [typed |-> <<" ">> \o IdA \o <<" ">>, trimmed |-> IdA],
      [typed |-> <<>>, trimmed |-> <<>>],
      [typed |-> <<" ">>, trimmed |-> <<>>],
      [typed |-> <<"a", "b">>, trimmed |-> <<"a", "b">>],
      [typed |-> Short13, trimmed |-> Short13],
      [typed |-> IdA \o <<"1">>, trimmed |-> IdA \o <<"1">>],
      [typed |-> Rep("1", IdLen - 1) \o <<"x">>, trimmed |-> Rep("1", IdLen - 1) \o <<"x">>] }

\* The search texts of one to MaxParts parts, each kept with its parts.
PartLists == UNION { [1..n -> Parts] : n \in 1..MaxParts }

FlagCalls ==
    { [fn |-> "get_flag_icon", args |-> <<o, c>>, returned |-> FALSE, result |-> <<>>] :
        o \in Origins, c \in Sources }

IdListCalls ==
    { [fn |-> "is_cola_id_list", args |-> <<JoinComma([i \in 1..Len(l) |-> l[i].typed]), l>>,
       returned |-> FALSE, result |-> <<>>] : l \in PartLists }

\* Values a multiselect can offer: texts of the store, a brand name with a
\* comma in it and an origin stored with a trailing blank.
OptionValues ==
    { FRANCE, TABLE_WINE, wine, LABEL, <<"a", ",", " ", "b">>, <<"x", " ">> }

\* The selections of one or two different option values, each written to
\* the address and read back.
UrlListCalls ==
    { [fn |-> "parse_url_list", args |-> <<JoinComma(l), l>>,
       returned |-> FALSE, result |-> <<>>] :
        l \in ListsOf(OptionValues, MaxSel) \ {<<>>} }

InitCalls ==
    /\ store = StoreMain
    /\ token = GoodToken
    /\ database = "up"
    /\ corrupt = NoCorruption
    /\ landing = NoUrl
    /\ call \in FlagCalls \cup IdListCalls \cup UrlListCalls
    /\ Fresh

\* The called function returns.
Return ==
    /\ call.fn # "none"
    /\ ~call.returned
    /\ call' = [call EXCEPT
                  !.returned = TRUE,
                  !.result = CASE call.fn = "get_flag_icon" ->
                                    get_flag_icon(call.args[1], call.args[2])
                               [] call.fn = "is_cola_id_list" ->
                                    is_cola_id_list(call.args[1])
                               [] call.fn = "parse_url_list" ->
                                    parse_url_list(call.args[1])]
    /\ UNCHANGED <<store, token, database, corrupt, landing, url, interactions, pressed, pc,
                   log, filters, compiled, fetched, shown, last>>

\* get_flag_icon, is_cola_id_list and parse_url_list applied to one input
\* each.
SpecCalls == InitCalls /\ [][Return]_vars

\* The call of get_flag_icon has returned for a record that is not domestic
\* and whose origin, lower-cased and stripped, is no key of the table.
NonDomesticInexact ==
    /\ call.fn = "get_flag_icon"
    /\ call.returned
    /\ ~SourceIs(call.args[2], <<"d", "o", "m", "e", "s", "t", "i", "c">>)
    /\ call.args[1] # NullText
    /\ call.args[1] # <<>>
    /\ ~In(<<"d", "o", "m", "e", "s", "t", "i", "c">>, Strip(Lower(call.args[1])))
    /\ \A i \in 1..Len(flag_map) : flag_map[i].country # Strip(Lower(call.args[1]))

\* C21: for a non-domestic record whose origin has no exact entry in the
\* table, get_flag_icon returns the glyph of the longest key that occurs in
\* the lower-cased origin; a shorter key that also occurs never wins over a
\* longer one.
C21_LongestKeyWins ==
    (NonDomesticInexact /\ PartialMatches(Strip(Lower(call.args[1]))) # {}) =>
        \E i \in PartialMatches(Strip(Lower(call.args[1]))) :
            /\ \A j \in PartialMatches(Strip(Lower(call.args[1]))) :
                  Len(flag_map[j].country) <= Len(flag_map[i].country)
            /\ call.result = flag_map[i].flag

\* The call of is_cola_id_list has returned.
IdListReturned == call.fn = "is_cola_id_list" /\ call.returned

\* The parts of the search text of the call, without the whitespace around
\* them, in the order typed.
TrimmedParts == [i \in 1..Len(call.args[2]) |-> call.args[2][i].trimmed]

\* C22: is_cola_id_list(s) returns (True, ids) exactly when s is non-empty
\* and every comma-separated part, after trimming, is exactly 14 digits; ids
\* are then the trimmed parts in the order typed, duplicates kept. In every
\* other case, an empty part from a leading, trailing or doubled comma
\* included, it returns (False, []) and never a partial list.
C22_AllPartsOrNothing ==
    IdListReturned =>
        IF call.args[1] # <<>> /\ \A i \in 1..Len(TrimmedParts) : FourteenDigits(TrimmedParts[i])
        THEN call.result = [ok |-> TRUE, ids |-> TrimmedParts]
        ELSE call.result = [ok |-> FALSE, ids |-> <<>>]

\* A list with a repeated identifier, one of them typed with blanks around
\* it, has been accepted.
C22_Witness ==
    /\ IdListReturned
    /\ call.result.ok
    /\ \E i, j \in 1..Len(call.result.ids) : i < j /\ call.result.ids[i] = call.result.ids[j]
    /\ \E i \in 1..Len(call.args[2]) : call.args[2][i].typed # call.args[2][i].trimmed

\* ------------------------------------------------------------------------
\* The range of dates a page opens with
\* ------------------------------------------------------------------------

\* A store whose completion dates span less than 14 days.
StoreShort == [StoreMain EXCEPT !.colas[1].completed_date = 20240125]

DateTextC == FormatDate(20240126)

\* The addresses that name at most the two dates.
DateUrls ==
    { MakeUrl([search |-> Absent, exclude |-> Absent, start_date |-> ds, end_date |-> de,
               commodity |-> Absent, origin |-> Absent, class_type |-> Absent,
               brand |-> Absent, violation_group |-> Absent]) :
        ds \in {Absent, DateTextA, DateTextC, BadDateText},
        de \in {Absent, DateTextB, BadDateText} }

\* A page over a store with a long, a short or no span of completion dates
\* is opened at an address that names at most the two dates.
InitDates ==
    /\ store \in {StoreMain, StoreShort, StoreNoDates}
    /\ token = GoodToken
    /\ database = "up"
    /\ corrupt = NoCorruption
    /\ landing \in DateUrls
    /\ call = NoCall
    /\ Fresh

SpecDates == InitDates /\ [][NextPageLoad]_vars

\* The days of the year of the stores.
CalendarDays ==
    { 2024 * 10000 + m * 100 + d : m \in 1..12, d \in 1..31 } \ 
    { 20240230, 20240231, 20240431, 20240631, 20240931, 20241131 }

\* The text is a date written YYYY-MM-DD.
WrittenDate(t) == \E d \in CalendarDays : FormatDate(d) = t

\* The completion dates of the store.
CompletionDates ==
    { store.colas[i].completed_date : i \in 1..Len(store.colas) } \ {NullDate}

\* The address the page was opened at gives two dates that both parse.
UrlGivesRange ==
    /\ "start_date" \in DOMAIN landing
    /\ "end_date" \in DOMAIN landing
    /\ WrittenDate(landing["start_date"])
    /\ WrittenDate(landing["end_date"])

\* The first run of a page has read its widgets.
FirstRunRead == interactions = 0 /\ Updated

full_date_range_FromDefaultStart(st) ==
    [k \in {"start_date", "end_date"} |->
        IF k = "start_date" THEN FormatDate(default_start(st)) ELSE FormatDate(max_date(st))]

\* {'start_date': min_date, 'end_date': max_date}
full_date_range(st) ==
    [k \in {"start_date", "end_date"} |->
        IF k = "start_date" THEN FormatDate(min_date(st)) ELSE FormatDate(max_date(st))]

\* The user presses the button of the page: the script runs with every
\* widget as it is, updates the address from the widgets, finds the button
\* pressed, writes the full range to the address and restarts.
ShowAllDates ==
    /\ pc \in {"done", "crashed"}
    /\ interactions < MaxInteractions
    /\ "st.sidebar.button" \in Range(log)
    /\ has_other_filters(search_term, exclude_term, selected_commodity, selected_origin,
                         selected_class_type, selected_brand, selected_violation_group)
    /\ min_date(store) # NullDate
    /\ max_date(store) # NullDate
    /\ url' = UrlUpdate(UrlUpdate(url, new_query_params(search_term, exclude_term,
                                          selected_start, selected_end, selected_commodity,
                                          selected_origin, selected_class_type,
                                          selected_brand, selected_violation_group)),
                        full_date_range(store))
    /\ log' = <<"st.title">> \o ConnectionLog(token, database) \o SidebarLog(store)
                \o <<"st.sidebar.button", "button pressed", "st.query_params.update",
                     "st.rerun">>
    /\ pressed' = TRUE
    /\ interactions' = interactions + 1
    /\ is_cola_list' = FALSE
    /\ cola_ids' = <<>>
    /\ where_clauses' = <<>>
    /\ params' = <<>>
    /\ where_sql' = NoWhere
    /\ df' = NoRows
    /\ images_data' = NoMap
    /\ violations_data' = NoMap
    /\ filtered' = NoRows
    /\ results_message' = NoMessage
    /\ commodity_summary' = "none"
    /\ chart' = "none"
    /\ rendered' = NoRows
    /\ pc' = "idle"
    /\ UNCHANGED <<environment, filters, last>>

NextButton == NextSession \/ ShowAllDates

\* Pages whose user changes widgets and presses the button.
SpecButton == InitSession /\ [][NextButton]_vars

\* A filter other than the date range is active.
NonDateFilterActive ==
    \/ search_term # <<>>
    \/ exclude_term # <<>>
    \/ Len(selected_commodity) + Len(selected_origin) + Len(selected_class_type)
         + Len(selected_brand) + Len(selected_violation_group) > 0

\* The button is on the page only with a non-date filter active and
\* completion dates in the store.
ButtonOnlyWithOtherFilters ==
    (Updated /\ "st.sidebar.button" \in Range(log)) =>
        (NonDateFilterActive /\ CompletionDates # {})

\* The run in which the button was found pressed has ended: the address
\* holds the first and the last completion date, and the run compiled and
\* fetched nothing.
PressedRunRestarts ==
    (pressed /\ pc = "idle") =>
        /\ log[Len(log)] = "st.rerun"
        /\ "start_date" \in DOMAIN url
        /\ "end_date" \in DOMAIN url
        /\ \A d \in CompletionDates :
              /\ ParseDate(url["start_date"]) <= d
              /\ d <= ParseDate(url["end_date"])
        /\ ParseDate(url["start_date"]) \in CompletionDates
        /\ ParseDate(url["end_date"]) \in CompletionDates
        /\ Range(log) \cap (ResultEvents \cup {"compile"}) = {}
        /\ Range(log) \cap {"primary query", "images batch", "violations batch"} = {}

\* The run after the press filters on the full range, and its other
\* widgets return what they held before the press.
NextRunHasFullRange ==
    (pressed /\ pc = "connected" /\ pc' = "widgets") =>
        /\ selected_start' \in CompletionDates
        /\ selected_end' \in CompletionDates
        /\ \A d \in CompletionDates : selected_start' <= d /\ d <= selected_end'
        /\ search_term' = search_term
        /\ exclude_term' = exclude_term
        /\ selected_commodity' = selected_commodity
        /\ selected_origin' = selected_origin
        /\ selected_class_type' = selected_class_type
        /\ selected_brand' = selected_brand
        /\ selected_violation_group' = selected_violation_group

\* C24: the 'Show All Available Dates' button is offered only when at least
\* one non-date filter is active and min/max dates exist; pressing it sets
\* start_date and end_date of the address to min_date and max_date and
\* restarts the script before any result query of that run, and the date
\* filter of the next run is [min_date, max_date] with every other filter
\* unchanged.
C24_ButtonShowsAllDates ==
    /\ [](ButtonOnlyWithOtherFilters /\ PressedRunRestarts)
    /\ [][NextRunHasFullRange]_vars

\* The run after a press has compiled its filter: a range that started
\* later than the first completion date now spans all of them, next to the
\* search term that was active before.
C24_Witness ==
    /\ pressed
    /\ Built
    /\ search_term # <<>>
    /\ ~is_cola_list
    /\ selected_start = 20240101
    /\ selected_end = 20240131
    /\ "search" \in DOMAIN url
    /\ landing = NoUrl
    /\ ClausesOf("BETWEEN", "completed_date") # {}

\* ------------------------------------------------------------------------
\* Placeholders and parameters
\* ------------------------------------------------------------------------

\* The parameters the normal path should bind, in the order of its clauses.
NormalParams ==
    selected_origin \o selected_class_type \o selected_commodity \o selected_brand
      \o selected_violation_group
      \o (IF DateActive THEN <<FormatDate(selected_start), FormatDate(selected_end)>>
          ELSE <<>>)
      \o (IF search_term # <<>>
          THEN Rep(<<"%">> \o Lower(search_term) \o <<"%">>, PatternCopies) ELSE <<>>)
      \o (IF exclude_term # <<>>
          THEN Rep(<<"%">> \o Lower(exclude_term) \o <<"%">>, PatternCopies) ELSE <<>>)

\* ','.join(['?' for _ in cola_ids]): the placeholders of a batch query.
BatchHoles(ids) == Len(ids)

\* The identifiers of the rows of the primary result.
ResultIds == [i \in 1..Len(df) |-> df[i].cola_id]

\* C25: for every combination of filters, on both paths, the number of '?'
\* placeholders of the compiled predicate equals the length of the
\* parameter list, and the parameters are aligned with the placeholders in
\* the order origin, class type, commodity, brand, violation group, date
\* start, date end, eight copies of the search pattern, eight copies of the
\* exclude pattern. The same equality holds for the two batch queries, whose
\* parameters are exactly the identifiers of the primary result.
C25_PlaceholdersMatchParameters ==
    /\ Built =>
          /\ TotalHoles(where_clauses) = Len(params)
          /\ ~is_cola_list => params = NormalParams
          /\ is_cola_list =>
                /\ Len(where_clauses) = 1
                /\ where_clauses[1].kind = "IN"
                /\ where_clauses[1].field = "cola_id"
                /\ \A i \in 1..Len(params) : FourteenDigits(params[i])
          /\ \A i \in 1..Len(where_clauses) :
                /\ where_clauses[i].field = "origin" => ParamsOf(i) = selected_origin
                /\ where_clauses[i].field = "class_type" => ParamsOf(i) = selected_class_type
                /\ where_clauses[i].field = "ct_commodity" => ParamsOf(i) = selected_commodity
                /\ where_clauses[i].field = "brand_name" => ParamsOf(i) = selected_brand
                /\ where_clauses[i].field = "violation_group"
                      => ParamsOf(i) = selected_violation_group
                /\ where_clauses[i].kind = "BETWEEN"
                      => ParamsOf(i) = <<FormatDate(selected_start), FormatDate(selected_end)>>
                /\ where_clauses[i].kind = "OR"
                      => ParamsOf(i) = Rep(<<"%">> \o Lower(search_term) \o <<"%">>, PatternCopies)
                /\ where_clauses[i].kind = "NOT_OR"
                      => ParamsOf(i) = Rep(<<"%">> \o Lower(exclude_term) \o <<"%">>, PatternCopies)
    /\ Answered =>
          /\ cola_ids = ResultIds
          /\ BatchHoles(cola_ids) = Len(ResultIds)
          /\ ("images batch" \in Range(log)) = (ResultIds # <<>>)
          /\ ("violations batch" \in Range(log)) = (ResultIds # <<>>)

\* Every filter of the normal path is active and the primary query was
\* answered.
C25_Witness ==
    /\ Answered
    /\ ~is_cola_list
    /\ Len(where_clauses) = 8
    /\ Len(params) > 2 * PatternCopies + 6

\* ------------------------------------------------------------------------
\* The results message
\* ------------------------------------------------------------------------

\* The results message has been written.
MessageWritten == results_message.valid

\* The wordings of the phrases of the results message.
Phrases ==
    { results_message.explanations[i].phrase : i \in 1..Len(results_message.explanations) }

\* The message holds a phrase of one of the wordings exactly when the
\* predicate holds a clause of the kind on the field.
PhraseIffClause(wordings, kind, field) ==
    (Phrases \cap wordings # {}) <=> (ClausesOf(kind, field) # {})

IdPhrases == {"for COLA ID", "for N specific COLA IDs"}

\* C26: the results message contains an explanation phrase for a filter if
\* and only if that filter contributed a clause to the predicate; on the
\* ID-list fast path it mentions no date range, commodity, brand, origin,
\* class type, violation group or exclude phrase.
C26_PhraseIffClause ==
    MessageWritten =>
        /\ PhraseIffClause({"with completion date from"}, "BETWEEN", "completed_date")
        /\ PhraseIffClause({"limited to COLAs only", "limited to COLAs"}, "IN", "ct_commodity")
        /\ PhraseIffClause({"for brand", "for brands"}, "IN", "brand_name")
        /\ PhraseIffClause({"of origin", "of origins"}, "IN", "origin")
        /\ PhraseIffClause({"with Class Type =", "with Class Type = []"}, "IN", "class_type")
        /\ PhraseIffClause({"with violations"}, "EXISTS_IN", "violation_group")
        /\ PhraseIffClause({"matching search term"}, "OR", "")
        /\ PhraseIffClause({"excluding"}, "NOT_OR", "")
        /\ PhraseIffClause(IdPhrases, "IN", "cola_id")
        /\ is_cola_list => Phrases \subseteq IdPhrases

\* An identifier no store holds.
IdD == Rep("9", IdLen)

\* The addresses that name a search text and at most a date range, an
\* exclude text and an origin.
MessageUrls ==
    { MakeUrl([search |-> s, exclude |-> x, start_date |-> d[1], end_date |-> d[2],
               commodity |-> com, origin |-> org, class_type |-> Absent,
               brand |-> Absent, violation_group |-> Absent]) :
        s \in { <<"a", "B">>, IdA, IdD, IdA \o <<",">> \o IdA, IdA \o <<",">> \o IdD,
                IdA \o <<",">> \o IdB, IdD \o <<",">> \o Rep("8", IdLen) },
        x \in {Absent, <<"b", "c">>},
        d \in {<<Absent, Absent>>, <<DateTextA, DateTextB>>},
        com \in {Absent, wine},
        org \in {Absent, FRANCE} }

\* A page is opened at an address that names a search text.
InitMessage ==
    /\ store \in Stores
    /\ token = GoodToken
    /\ database = "up"
    /\ corrupt = NoCorruption
    /\ landing \in MessageUrls
    /\ call = NoCall
    /\ Fresh

SpecMessage == InitMessage /\ [][NextPageLoad]_vars

\* The identifiers the user entered: the parts of the search text between
\* the commas, without the whitespace around them.
EnteredIds ==
    LET parts == SplitComma(search_term)
    IN  [i \in 1..Len(parts) |-> Strip(parts[i])]

\* C27: on the ID-list fast path the results message names the identifiers
\* the user entered: 'for COLA ID X' when one identifier X was entered, and
\* 'for N specific COLA IDs' with N the number of identifiers entered
\* otherwise, whatever the number of records that matched.
C27_MessageNamesEnteredIds ==
    (MessageWritten /\ is_cola_list) =>
        \E i \in 1..Len(results_message.explanations) :
            LET e == results_message.explanations[i]
            IN  IF Len(EnteredIds) = 1
                THEN e.phrase = "for COLA ID" /\ e.values = EnteredIds
                ELSE e.phrase = "for N specific COLA IDs" /\ e.n = Len(EnteredIds)

\* C28: the multi-valued filters round-trip through the address: for every
\* selected list of option values of origin, class type, brand, commodity or
\* violation group, parse_url_list of the comma-joined value returns the
\* same list in the same order, so that reloading the address reproduces the
\* selection.
C28_ListsRoundTrip ==
    (call.fn = "parse_url_list" /\ call.returned) => call.result = call.args[2]

====
